---- MODULE Spec2Model ----
(***************************************************************************)
(* The execution-state registry of backend/app/api/node_execution.py:      *)
(* the module-level dict execution_states and the four flask_restful       *)
(* resources that read and write it.                                       *)
(*                                                                         *)
(* A Python dict is a TLA+ function whose domain is the set of its keys.   *)
(* A JSON request body is such a dict.  datetime.now().isoformat() is the  *)
(* reading of a clock that never runs backwards; int(time.time()) is the   *)
(* same clock truncated to whole seconds.                                  *)
(*                                                                         *)
(* The entity stores of backend/app/services/workflow_manager.py,          *)
(* backend/app/api/models.py and backend/app/api/agents.py are modelled    *)
(* beside it, each with a specification of its own.                        *)
(***************************************************************************)
EXTENDS Integers, Sequences, FiniteSets, TLC

VARIABLES
    execution_states,   \* node_execution.py:19, executionId -> execution record
    clock,              \* the last reading any handler took of the wall clock
    nops,               \* number of requests served so far
    last,               \* the last request served and the response it got
    thr,                \* per worker thread: the request it is in and its locals
    hist                \* history: what the requests served so far were
                        \*   base:     the registry when the requests that overlap
                        \*             now (or did last) began
                        \*   begun:    how many requests began since then
                        \*   callerIO: some body carried an inputs or outputs key
                        \*   replaced: the userAction type the last request
                        \*             overwrote ("none": the node had no
                        \*             userAction, "": it wrote no userAction)
                        \*   ended:    the executions whose status has been
                        \*             "completed" or "failed" after some request
                        \*   issued:   the transferIds that successful transfers
                        \*             before the last request returned

\* The entity stores: services/workflow_manager.py, api/models.py, api/agents.py
\* and the generators of utils/mock_data.py.
VARIABLES
    workflows,          \* workflow_manager.py:15, _workflows: id -> workflow dict
    next_id,            \* workflow_manager.py:16, _next_id
    mock_workflows,     \* mock_data.py:10, _mock_workflows (<<>> is None)
    models,             \* api/models.py:19, _models: id -> model dict
    next_model_id,      \* api/models.py:20, _next_model_id
    mock_models,        \* mock_data.py:13, _mock_models (<<>> is None)
    agents,             \* api/agents.py:20, _agents: id -> agent dict
    next_agent_id,      \* api/agents.py:21, _next_agent_id
    mock_agents,        \* mock_data.py:12, _mock_agents (<<>> is None)
    heap,               \* the dict objects of the stores: a store, a cached list
                        \* and a caller hold references (indices) into it
    drawn,              \* how many uuid4 values have been drawn
    held,               \* the workflow dicts a caller holds from export_workflow
    gone                \* history: the ids for which delete_workflow returned
                        \* True and that no create, clone or import stored since

registryVars == <<execution_states, clock, thr, hist>>

workflowVars == <<workflows, next_id, mock_workflows, drawn, held, gone>>

modelVars == <<models, next_model_id, mock_models, agents, next_agent_id, mock_agents>>

storeVars == <<workflowVars, modelVars, heap>>

vars == <<execution_states, clock, nops, last, thr, hist, storeVars>>

(***************************************************************************)
(* Bounds of the model.                                                    *)
(***************************************************************************)
MaxOps == 3
MaxClock == 1

\* int(time.time()) keeps whole seconds; datetime.now() keeps microseconds.
\* One second of the model holds this many distinguishable clock readings.
TicksPerSecond == 2

ExecIds == {"e1", "e2"}
NodeIds == {"n1", "n2"}
Threads == {1, 2}

(***************************************************************************)
(* Python dict operations.                                                 *)
(***************************************************************************)
EmptyDict == [k \in {} |-> 0]

\* d.update(u)
DictUpdate(d, u) ==
    [k \in (DOMAIN d) \cup (DOMAIN u) |-> IF k \in DOMAIN u THEN u[k] ELSE d[k]]

\* d[k] = v
DictSet(d, k, v) ==
    [x \in (DOMAIN d) \cup {k} |-> IF x = k THEN v ELSE d[x]]

\* d.get(k, dflt)
DictGet(d, k, dflt) == IF k \in DOMAIN d THEN d[k] ELSE dflt

\* str.lower() on the action strings the callers send
Lower(s) ==
    CASE s = "APPROVE" -> "approve"
      [] s = "Reject" -> "reject"
      [] OTHER -> s

\* f"transfer-{int(time.time())}"
TransferId(t) == <<"transfer-", t \div TicksPerSecond>>

(***************************************************************************)
(* Request bodies the callers send.  Every value keeps the type the        *)
(* handlers themselves store under the same key (a mapping under inputs,   *)
(* outputs and nodes, a string under status).                              *)
(***************************************************************************)
ForeignStub == [transferId |-> <<"transfer-", 99>>, timestamp |-> 0, status |-> "sent"]

NodeBodies ==
    { EmptyDict,
      [status |-> "pending"],
      [status |-> "done", meta |-> "m"],
      [status |-> "pending", outputs |-> [ghost |-> ForeignStub]],
      [status |-> "pending", lastUpdated |-> 99, nodeId |-> "zz"] }

ExecBodies ==
    { EmptyDict,
      [status |-> "completed"],
      [status |-> "running", label |-> "x"],
      [startTime |-> 99],
      [executionId |-> "zz"],
      [nodes |-> [n1 |-> EmptyDict, n2 |-> [status |-> "done"]]],
      [nodes |-> [n1 |-> [lastUpdated |-> 99]]] }

TransferBodies == { EmptyDict, [data |-> "x"] }

ManualBodies ==
    { EmptyDict,
      [action |-> "bogus"],
      [action |-> "APPROVE", comment |-> "ok"],
      [action |-> "reject"],
      [action |-> "input"],
      [action |-> "input", input |-> "v"] }

(***************************************************************************)
(* The requests the callers send: every route with every body on           *)
(* execution "e1", and one request per route on a second execution "e2".   *)
(***************************************************************************)
NodeGetCalls ==
    {<<"e1", n>> : n \in NodeIds} \cup {<<"e2", "n1">>}

NodePutCalls ==
    {<<"e1", n, b>> : n \in NodeIds, b \in NodeBodies}
        \cup {<<"e2", "n1", [status |-> "pending"]>>}

ExecGetCalls == {<<e>> : e \in ExecIds}

ExecPutCalls ==
    {<<"e1", b>> : b \in ExecBodies}
        \cup {<<"e2", [status |-> "running", label |-> "x"]>>}

TransferCalls ==
    {<<"e1", s, t, b>> : s \in NodeIds, t \in NodeIds, b \in TransferBodies}
        \cup {<<"e2", "n1", "n1", [data |-> "x"]>>}

ManualCalls ==
    {<<"e1", n, b>> : n \in NodeIds, b \in ManualBodies}
        \cup {<<"e2", "n1", [action |-> "reject"]>>}

(***************************************************************************)
(* Records the handlers build.                                             *)
(***************************************************************************)
\* lines 65-70 and 129-134
NewExecution(e, status, t) ==
    [executionId |-> e, status |-> status, startTime |-> t, nodes |-> EmptyDict]

\* lines 82-86 and 157-161
NewNode(n, status, t) ==
    [nodeId |-> n, status |-> status, lastUpdated |-> t]

Response(code, body) == [code |-> code, body |-> body]

\* execution_states[e]['nodes'] = nodes
WithNodes(reg, e, nodes) == DictSet(reg, e, DictSet(reg[e], "nodes", nodes))

(***************************************************************************)
(* NodeStatusResource                                                      *)
(***************************************************************************)
\* fault: a node the execution lacks is reported as an empty record
NodeStatusGetEmpty(reg, e, n) ==
    IF e \notin DOMAIN reg THEN Response(404, <<"Execution not found">>)
    ELSE IF n \notin DOMAIN reg[e]["nodes"]
    THEN Response(200, EmptyDict)
    ELSE Response(200, reg[e]["nodes"][n])

\* get, lines 35-44
NodeStatusGet(reg, e, n) ==
    IF e \notin DOMAIN reg THEN Response(404, <<"Execution not found">>)
    ELSE IF n \notin DOMAIN reg[e]["nodes"]
    THEN Response(404, <<"Node not found in this execution">>)
    ELSE Response(200, reg[e]["nodes"][n])

\* put, lines 50-52
NodePutValid(data) == "status" \in DOMAIN data

\* fault: the lazily created execution starts out "pending"
NodePutEnsureExecutionPending(reg, e, t0) ==
    IF e \notin DOMAIN reg
    THEN DictSet(reg, e, NewExecution(e, "pending", t0))
    ELSE reg

\* put, lines 63-70
NodePutEnsureExecution(reg, e, t0) ==
    IF e \notin DOMAIN reg
    THEN DictSet(reg, e, NewExecution(e, "running", t0))
    ELSE reg

\* fault: on a node that exists the body is merged after the stamp
NodePutUpsertCallerStamp(reg, e, n, data, t1) ==
    LET nodes == reg[e]["nodes"]
        node == IF n \in DOMAIN nodes
                THEN DictUpdate(DictSet(nodes[n], "lastUpdated", t1), data)
                ELSE DictUpdate(NewNode(n, data["status"], t1), data)
    IN  WithNodes(reg, e, DictSet(nodes, n, node))

\* fault: the node is written in every execution that has a node of that id
NodePutUpsertEveryOwner(reg, e, n, data, t1) ==
    LET node(x) == IF n \in DOMAIN reg[x]["nodes"]
                   THEN DictSet(DictUpdate(reg[x]["nodes"][n], data), "lastUpdated", t1)
                   ELSE DictUpdate(NewNode(n, data["status"], t1), data)
    IN  [x \in DOMAIN reg |->
            IF x = e \/ n \in DOMAIN reg[x]["nodes"]
            THEN DictSet(reg[x], "nodes", DictSet(reg[x]["nodes"], n, node(x)))
            ELSE reg[x]]

\* put, lines 72-88
NodePutUpsert(reg, e, n, data, t1) ==
    LET nodes == reg[e]["nodes"]
        node == IF n \in DOMAIN nodes
                THEN DictSet(DictUpdate(nodes[n], data), "lastUpdated", t1)
                ELSE DictUpdate(NewNode(n, data["status"], t1), data)
    IN  WithNodes(reg, e, DictSet(nodes, n, node))

\* fault: the execution is created before the body is validated
NodePutStatesCreateFirst(reg, e, n, data, t0, t1) ==
    IF ~NodePutValid(data) THEN NodePutEnsureExecution(reg, e, t0)
    ELSE NodePutUpsert(NodePutEnsureExecution(reg, e, t0), e, n, data, t1)

\* put, lines 46-91: the registry after the call
NodePutStates(reg, e, n, data, t0, t1) ==
    IF ~NodePutValid(data) THEN reg
    ELSE NodePutUpsert(NodePutEnsureExecution(reg, e, t0), e, n, data, t1)

\* put, lines 46-91: the response
NodePutResponse(reg, e, n, data, t0, t1) ==
    IF ~NodePutValid(data) THEN Response(400, <<"Node status is required">>)
    ELSE Response(200, NodePutStates(reg, e, n, data, t0, t1)[e]["nodes"][n])

(***************************************************************************)
(* ExecutionStateResource                                                  *)
(***************************************************************************)
\* fault: the read returns the record without its node mapping
ExecGetSummary(reg, e) ==
    IF e \notin DOMAIN reg THEN Response(404, <<"Execution not found">>)
    ELSE Response(200, [k \in (DOMAIN reg[e]) \ {"nodes"} |-> reg[e][k]])

\* get, lines 107-112
ExecGet(reg, e) ==
    IF e \notin DOMAIN reg THEN Response(404, <<"Execution not found">>)
    ELSE Response(200, reg[e])

\* fault: a status that is not final clears the endTime
ExecPutHeadClearsEnd(reg, e, data, t0) ==
    IF e \notin DOMAIN reg
    THEN NewExecution(e, DictGet(data, "status", "running"), t0)
    ELSE LET a == IF "status" \in DOMAIN data
                  THEN DictSet(reg[e], "status", data["status"])
                  ELSE reg[e]
         IN  IF DictGet(data, "status", "") \in {"completed", "failed"}
             THEN DictSet(a, "endTime", t0)
             ELSE IF "status" \in DOMAIN data
             THEN [k \in (DOMAIN a) \ {"endTime"} |-> a[k]]
             ELSE a

\* fault: an execution created without a status starts out "pending"
ExecPutHeadDefaultPending(reg, e, data, t0) ==
    IF e \notin DOMAIN reg
    THEN NewExecution(e, DictGet(data, "status", "pending"), t0)
    ELSE LET a == IF "status" \in DOMAIN data
                  THEN DictSet(reg[e], "status", data["status"])
                  ELSE reg[e]
         IN  IF DictGet(data, "status", "") \in {"completed", "failed"}
             THEN DictSet(a, "endTime", t0)
             ELSE a

\* put, lines 127-142
ExecPutHead(reg, e, data, t0) ==
    IF e \notin DOMAIN reg
    THEN NewExecution(e, DictGet(data, "status", "running"), t0)
    ELSE LET a == IF "status" \in DOMAIN data
                  THEN DictSet(reg[e], "status", data["status"])
                  ELSE reg[e]
         IN  IF DictGet(data, "status", "") \in {"completed", "failed"}
             THEN DictSet(a, "endTime", t0)
             ELSE a

\* put, lines 144-147
ExecPutCopyKeys(rec, data) ==
    DictUpdate(rec, [k \in (DOMAIN data) \ {"nodes"} |-> data[k]])

\* fault: a partial replaces the node that exists instead of being merged
ExecPutNodesReplaces(rec, data, tn) ==
    IF "nodes" \notin DOMAIN data THEN rec
    ELSE LET old == rec["nodes"]
             upd == data["nodes"]
         IN  DictSet(rec, "nodes",
                [n \in (DOMAIN old) \cup (DOMAIN upd) |->
                    IF n \notin DOMAIN upd THEN old[n]
                    ELSE IF n \in DOMAIN old
                    THEN DictUpdate(NewNode(n, old[n]["status"], old[n]["lastUpdated"]),
                                    upd[n])
                    ELSE DictUpdate(
                            NewNode(n, DictGet(upd[n], "status", "pending"), tn[n]),
                            upd[n])])

\* put, lines 149-162; tn[n] is the clock reading of line 160 for node n.
\* Every body of ExecBodies that has a nodes key has a dict of dicts under it,
\* so the isinstance test of line 150 passes whenever the key is there.
ExecPutNodes(rec, data, tn) ==
    IF "nodes" \notin DOMAIN data THEN rec
    ELSE LET old == rec["nodes"]
             upd == data["nodes"]
         IN  DictSet(rec, "nodes",
                [n \in (DOMAIN old) \cup (DOMAIN upd) |->
                    IF n \notin DOMAIN upd THEN old[n]
                    ELSE IF n \in DOMAIN old THEN DictUpdate(old[n], upd[n])
                    ELSE DictUpdate(
                            NewNode(n, DictGet(upd[n], "status", "pending"), tn[n]),
                            upd[n])])

\* put, lines 114-165: the registry after the call
ExecPutStates(reg, e, data, t0, tn) ==
    DictSet(reg, e,
        ExecPutNodes(ExecPutCopyKeys(ExecPutHead(reg, e, data, t0), data), data, tn))

\* put, lines 114-165: the response
ExecPutResponse(reg, e, data, t0, tn) ==
    Response(200, ExecPutStates(reg, e, data, t0, tn)[e])

\* the nodes line 160 stamps: those of data['nodes'] the execution lacks
ExecPutNewNodes(reg, e, data) ==
    IF "nodes" \notin DOMAIN data THEN {}
    ELSE IF e \notin DOMAIN reg THEN DOMAIN data["nodes"]
    ELSE (DOMAIN data["nodes"]) \ (DOMAIN reg[e]["nodes"])

(***************************************************************************)
(* NodeDataTransferResource                                                *)
(***************************************************************************)
\* fault: the target node is looked up before the source node
TransferCheckTargetFirst(reg, e, s, t, data) ==
    IF "data" \notin DOMAIN data
    THEN Response(400, <<"Data payload is required">>)
    ELSE IF e \notin DOMAIN reg
    THEN Response(404, <<"Execution not found">>)
    ELSE IF t \notin DOMAIN reg[e]["nodes"]
    THEN Response(404, <<"Target node ", t, " not found">>)
    ELSE IF s \notin DOMAIN reg[e]["nodes"]
    THEN Response(404, <<"Source node ", s, " not found">>)
    ELSE Response(200, <<"Data transferred from ", s, " to ", t>>)

\* post, lines 185-198: the error response, or the 200 of line 230
TransferCheck(reg, e, s, t, data) ==
    IF "data" \notin DOMAIN data
    THEN Response(400, <<"Data payload is required">>)
    ELSE IF e \notin DOMAIN reg
    THEN Response(404, <<"Execution not found">>)
    ELSE IF s \notin DOMAIN reg[e]["nodes"]
    THEN Response(404, <<"Source node ", s, " not found">>)
    ELSE IF t \notin DOMAIN reg[e]["nodes"]
    THEN Response(404, <<"Target node ", t, " not found">>)
    ELSE Response(200, <<"Data transferred from ", s, " to ", t>>)

\* fault: the outputs mapping is started afresh on every transfer
TransferWriteOutputFresh(nodes, s, t, tid, ts) ==
    LET stub == [transferId |-> tid, timestamp |-> ts, status |-> "sent"]
    IN  DictSet(nodes, s, DictSet(nodes[s], "outputs", DictSet(EmptyDict, t, stub)))

\* post, lines 211-218, on the nodes dict of the execution
TransferWriteOutput(nodes, s, t, tid, ts) ==
    LET outputs == DictGet(nodes[s], "outputs", EmptyDict)
        stub == [transferId |-> tid, timestamp |-> ts, status |-> "sent"]
    IN  DictSet(nodes, s, DictSet(nodes[s], "outputs", DictSet(outputs, t, stub)))

\* fault: receiving a transfer also marks the target node "received"
TransferWriteInputMarksStatus(nodes, s, t, tid, ts, payload) ==
    LET inputs == DictGet(nodes[t], "inputs", EmptyDict)
        stub == [transferId |-> tid, timestamp |-> ts, status |-> "received",
                 data |-> payload]
        node == DictSet(nodes[t], "inputs", DictSet(inputs, s, stub))
    IN  DictSet(nodes, t, DictSet(node, "status", "received"))

\* fault: the input stub is filed under the target's own id
TransferWriteInputKeyedByTarget(nodes, s, t, tid, ts, payload) ==
    LET inputs == DictGet(nodes[t], "inputs", EmptyDict)
        stub == [transferId |-> tid, timestamp |-> ts, status |-> "received",
                 data |-> payload]
    IN  DictSet(nodes, t, DictSet(nodes[t], "inputs", DictSet(inputs, t, stub)))

\* fault: the target-side stub is numbered by its own clock reading
TransferWriteInputOwnId(nodes, s, t, tid, ts, payload) ==
    LET inputs == DictGet(nodes[t], "inputs", EmptyDict)
        stub == [transferId |-> <<"transfer-", ts>>, timestamp |-> ts,
                 status |-> "received", data |-> payload]
    IN  DictSet(nodes, t, DictSet(nodes[t], "inputs", DictSet(inputs, s, stub)))

\* post, lines 220-228, on the nodes dict of the execution
TransferWriteInput(nodes, s, t, tid, ts, payload) ==
    LET inputs == DictGet(nodes[t], "inputs", EmptyDict)
        stub == [transferId |-> tid, timestamp |-> ts, status |-> "received",
                 data |-> payload]
    IN  DictSet(nodes, t, DictSet(nodes[t], "inputs", DictSet(inputs, s, stub)))

\* fault: the source's stub is written before the target node is looked up
TransferStatesEagerOutput(reg, e, s, t, data, tid, tsOut, tsIn) ==
    LET chk == TransferCheck(reg, e, s, t, data)
    IN  IF chk.code = 200
        THEN WithNodes(reg, e,
                TransferWriteInput(
                    TransferWriteOutput(reg[e]["nodes"], s, t, tid, tsOut),
                    s, t, tid, tsIn, data["data"]))
        ELSE IF chk.code = 404 /\ chk.body[1] = "Target node "
        THEN WithNodes(reg, e, TransferWriteOutput(reg[e]["nodes"], s, t, tid, tsOut))
        ELSE reg

\* fault: a missing target node is created on the way to the 404
TransferStatesLazyTarget(reg, e, s, t, data, tid, tsOut, tsIn) ==
    LET chk == TransferCheck(reg, e, s, t, data)
    IN  IF chk.code = 200
        THEN WithNodes(reg, e,
                TransferWriteInput(
                    TransferWriteOutput(reg[e]["nodes"], s, t, tid, tsOut),
                    s, t, tid, tsIn, data["data"]))
        ELSE IF chk.code = 404 /\ chk.body[1] = "Target node "
        THEN WithNodes(reg, e, DictSet(reg[e]["nodes"], t, NewNode(t, "pending", tsIn)))
        ELSE reg

\* post, lines 170-234: the registry after the call
TransferStates(reg, e, s, t, data, tid, tsOut, tsIn) ==
    IF TransferCheck(reg, e, s, t, data).code # 200 THEN reg
    ELSE WithNodes(reg, e,
            TransferWriteInput(
                TransferWriteOutput(reg[e]["nodes"], s, t, tid, tsOut),
                s, t, tid, tsIn, data["data"]))

\* post, lines 170-234: the response
TransferResponse(reg, e, s, t, data, tid) ==
    LET chk == TransferCheck(reg, e, s, t, data)
    IN  IF chk.code # 200 THEN chk
        ELSE Response(200, [transferId |-> tid, status |-> "completed",
                            message |-> chk.body])

(***************************************************************************)
(* ManualNodeInteractionResource                                           *)
(***************************************************************************)
\* fault: the action is compared as sent, without lower()
ManualCheckCaseSensitive(reg, e, n, data) ==
    IF "action" \notin DOMAIN data
    THEN Response(400, <<"Action is required (approve, reject, or input)">>)
    ELSE IF data["action"] \notin {"approve", "reject", "input"}
    THEN Response(400, <<"Invalid action. Must be approve, reject, or input">>)
    ELSE IF e \notin DOMAIN reg
    THEN Response(404, <<"Execution not found">>)
    ELSE IF n \notin DOMAIN reg[e]["nodes"]
    THEN Response(404, <<"Node not found">>)
    ELSE IF data["action"] = "input" /\ "input" \notin DOMAIN data
    THEN Response(400, <<"Input data is required for input action">>)
    ELSE Response(200, <<"ok">>)

\* fault: the input field is looked for before the execution and the node
ManualCheckInputFirst(reg, e, n, data) ==
    IF "action" \notin DOMAIN data
    THEN Response(400, <<"Action is required (approve, reject, or input)">>)
    ELSE IF Lower(data["action"]) \notin {"approve", "reject", "input"}
    THEN Response(400, <<"Invalid action. Must be approve, reject, or input">>)
    ELSE IF Lower(data["action"]) = "input" /\ "input" \notin DOMAIN data
    THEN Response(400, <<"Input data is required for input action">>)
    ELSE IF e \notin DOMAIN reg
    THEN Response(404, <<"Execution not found">>)
    ELSE IF n \notin DOMAIN reg[e]["nodes"]
    THEN Response(404, <<"Node not found">>)
    ELSE Response(200, <<"ok">>)

\* post, lines 252-267 and 292-294: the error response, or the 200 of line 307
ManualCheck(reg, e, n, data) ==
    IF "action" \notin DOMAIN data
    THEN Response(400, <<"Action is required (approve, reject, or input)">>)
    ELSE IF Lower(data["action"]) \notin {"approve", "reject", "input"}
    THEN Response(400, <<"Invalid action. Must be approve, reject, or input">>)
    ELSE IF e \notin DOMAIN reg
    THEN Response(404, <<"Execution not found">>)
    ELSE IF n \notin DOMAIN reg[e]["nodes"]
    THEN Response(404, <<"Node not found">>)
    ELSE IF Lower(data["action"]) = "input" /\ "input" \notin DOMAIN data
    THEN Response(400, <<"Input data is required for input action">>)
    ELSE Response(200, <<"ok">>)

\* fault: the new userAction is merged into the one the node already has
ManualApplyMergesAction(node, data, ts) ==
    LET action == Lower(data["action"])
        status == CASE action = "approve" -> "approved"
                    [] action = "reject" -> "rejected"
                    [] action = "input" -> "running"
        userAction ==
            CASE action = "approve" ->
                    [type |-> "approval", timestamp |-> ts,
                     comment |-> DictGet(data, "comment", "")]
              [] action = "reject" ->
                    [type |-> "rejection", timestamp |-> ts,
                     reason |-> DictGet(data, "reason", ""),
                     comment |-> DictGet(data, "comment", "")]
              [] action = "input" ->
                    [type |-> "input", timestamp |-> ts, input |-> data["input"]]
        merged == DictUpdate(DictGet(node, "userAction", EmptyDict), userAction)
    IN  DictSet(DictSet(DictSet(node, "status", status), "userAction", merged),
                "lastUpdated", ts)

\* post, lines 273-305, on the node record
ManualApply(node, data, ts) ==
    LET action == Lower(data["action"])
        status == CASE action = "approve" -> "approved"
                    [] action = "reject" -> "rejected"
                    [] action = "input" -> "running"
        userAction ==
            CASE action = "approve" ->
                    [type |-> "approval", timestamp |-> ts,
                     comment |-> DictGet(data, "comment", "")]
              [] action = "reject" ->
                    [type |-> "rejection", timestamp |-> ts,
                     reason |-> DictGet(data, "reason", ""),
                     comment |-> DictGet(data, "comment", "")]
              [] action = "input" ->
                    [type |-> "input", timestamp |-> ts, input |-> data["input"]]
    IN  DictSet(DictSet(DictSet(node, "status", status), "userAction", userAction),
                "lastUpdated", ts)

\* f"Node {node_id} has been approved" and its siblings, lines 280, 290, 302
ManualMessage(n, data) ==
    LET action == Lower(data["action"])
    IN  CASE action = "approve" -> <<"Node ", n, " has been approved">>
          [] action = "reject" -> <<"Node ", n, " has been rejected">>
          [] action = "input" -> <<"Input provided for node ", n>>

\* fault: line 305 runs before the input check of line 293
ManualStatesStampsFirst(reg, e, n, data, ts) ==
    LET chk == ManualCheck(reg, e, n, data)
    IN  IF chk.code = 200
        THEN WithNodes(reg, e,
                DictSet(reg[e]["nodes"], n, ManualApply(reg[e]["nodes"][n], data, ts)))
        ELSE IF chk.body = <<"Input data is required for input action">>
        THEN WithNodes(reg, e,
                DictSet(reg[e]["nodes"], n,
                        DictSet(reg[e]["nodes"][n], "lastUpdated", ts)))
        ELSE reg

\* fault: a manual action also stamps the execution record
ManualStatesStampsExecution(reg, e, n, data, ts) ==
    IF ManualCheck(reg, e, n, data).code # 200 THEN reg
    ELSE DictSet(reg, e,
            DictSet(DictSet(reg[e], "nodes",
                        DictSet(reg[e]["nodes"], n,
                                ManualApply(reg[e]["nodes"][n], data, ts))),
                    "lastUpdated", ts))

\* post, lines 239-311: the registry after the call
ManualStates(reg, e, n, data, ts) ==
    IF ManualCheck(reg, e, n, data).code # 200 THEN reg
    ELSE WithNodes(reg, e,
            DictSet(reg[e]["nodes"], n, ManualApply(reg[e]["nodes"][n], data, ts)))

\* post, lines 239-311: the response
ManualResponse(reg, e, n, data, ts) ==
    LET chk == ManualCheck(reg, e, n, data)
    IN  IF chk.code # 200 THEN chk
        ELSE Response(200, [status |-> "success", message |-> ManualMessage(n, data),
                            node |-> ManualStates(reg, e, n, data, ts)[e]["nodes"][n]])

(***************************************************************************)
(* The workflow store of services/workflow_manager.py.                     *)
(*                                                                         *)
(* A Python value that serves as an id is a tagged pair, so that the int 1 *)
(* and the str "1" are different values, as they are as dict keys.  The    *)
(* dict objects live in heap and are held by reference, because the store, *)
(* the generator's cache and the callers share them.  Of a workflow dict   *)
(* the model keeps the keys id, name and status; its description, nodes,   *)
(* connections, version, metadata and timestamps are not represented.      *)
(***************************************************************************)
\* the code asks the generator for 5 sample workflows (workflow_manager.py:24)
\* and for 4 models and 3 agents (api/models.py:29, api/agents.py:30); the
\* model generates this many
SampleWorkflows == 2
SampleModels == 2
SampleAgents == 2

PyInt(n) == <<"int", n>>

\* the str that spells n in decimal digits
PyStr(n) == <<"str", n>>

\* str(uuid.uuid4()), the k-th value drawn
Uuid(k) == <<"uuid", k>>

PyNone == <<"none", 0>>

\* str(i) as a piece of a name
Digits(i) == <<"1", "2", "3", "4", "5", "6", "7", "8", "9">>[i]

\* "if isinstance(workflow_id, str) and workflow_id.isdigit(): int(workflow_id)"
AsKey(id) == IF id[1] = "str" THEN PyInt(id[2]) ELSE id

\* del d[k]
DictDel(d, k) == [x \in (DOMAIN d) \ {k} |-> d[x]]

\* what a call returns
ReturnsNone == [ret |-> "None"]

ReturnsBool(b) == [ret |-> "bool", value |-> b]

ReturnsDict(h, ref) == [ret |-> "dict", ref |-> ref, value |-> h[ref]]

\* list(d.values()), each dict under the key that holds it
ReturnsList(h, d) == [ret |-> "list", value |-> [k \in DOMAIN d |-> h[d[k]]]]

Raises(what) == [ret |-> "raise", value |-> what]

\* random.choice(['draft', 'active', 'archived']), mock_data.py:99
SampleStatuses == {"draft", "active", "archived"}

\* the module state the functions of workflow_manager.py work on
WorkflowStore ==
    [workflows |-> workflows, next_id |-> next_id, mock |-> mock_workflows,
     heap |-> heap]

\* mock_data.py lines 15-111: the cached list, or a new one that is cached
get_mock_workflows(st, status) ==
    IF st.mock # <<>> THEN st
    ELSE [st EXCEPT
            !.mock = [i \in 1..SampleWorkflows |-> Len(st.heap) + i],
            !.heap = @ \o [i \in 1..SampleWorkflows |->
                             [id |-> PyInt(i), name |-> <<"Workflow ", Digits(i)>>,
                              status |-> status[i]]]]

RECURSIVE SeedFrom(_, _)
\* workflow_manager.py lines 27-31, from the i-th sample workflow on
SeedFrom(st, i) ==
    IF i > Len(st.mock) THEN st
    ELSE LET ref == st.mock[i]
             id == st.heap[ref]["id"]
         IN  SeedFrom([st EXCEPT
                         !.workflows = DictSet(@, id, ref),
                         !.next_id = IF id[1] = "int" /\ id[2] >= @
                                     THEN id[2] + 1 ELSE @],
                      i + 1)

\* workflow_manager.py lines 19-31
initialize_sample_data(st, status) == SeedFrom(get_mock_workflows(st, status), 1)

\* "if not _workflows: _initialize_sample_data()"
EnsureSampleData(st, status) ==
    IF DOMAIN st.workflows = {} THEN initialize_sample_data(st, status) ELSE st

\* the statuses the generator may draw, when the call is going to run it
StatusDraws(st) ==
    IF DOMAIN st.workflows = {} /\ st.mock = <<>>
    THEN [1..SampleWorkflows -> SampleStatuses]
    ELSE {[i \in 1..SampleWorkflows |-> "draft"]}

\* lines 33-45
get_all_workflows(st, status) ==
    LET s1 == EnsureSampleData(st, status)
    IN  [st |-> s1, returns |-> ReturnsList(s1.heap, s1.workflows)]

\* lines 47-66; ref 0 stands for None
get_workflow_by_id(st, id, status) ==
    LET s1 == EnsureSampleData(st, status)
        key == AsKey(id)
    IN  [st |-> s1,
         ref |-> IF key \in DOMAIN s1.workflows THEN s1.workflows[key] ELSE 0]

\* models/workflow.py lines 51-79
create_from_dict(data, uuid) ==
    [id |-> uuid,
     name |-> DictGet(data, "name", <<"Untitled Workflow">>),
     status |-> DictGet(data, "status", "draft")]

\* lines 68-95
create_workflow(st, data, status, uuid) ==
    LET s1 == EnsureSampleData(st, status)
        made == create_from_dict(data, uuid)
        numbered == "id" \notin DOMAIN made
        created == IF numbered THEN DictSet(made, "id", PyInt(s1.next_id)) ELSE made
        ref == Len(s1.heap) + 1
        s2 == [s1 EXCEPT !.heap = Append(@, created),
                         !.next_id = IF numbered THEN @ + 1 ELSE @,
                         !.workflows = DictSet(@, created["id"], ref)]
    IN  [st |-> s2, returns |-> ReturnsDict(s2.heap, ref), stored |-> {created["id"]}]

\* models/workflow.py lines 81-101
update_from_dict(workflow, data) ==
    [k \in DOMAIN workflow |->
        IF k \in DOMAIN data /\ k \notin {"id", "created_at"} THEN data[k]
        ELSE workflow[k]]

\* lines 97-129
update_workflow(st, id, data, status) ==
    LET s1 == EnsureSampleData(st, status)
        key == AsKey(id)
    IN  IF key \notin DOMAIN s1.workflows THEN [st |-> s1, returns |-> ReturnsNone]
        ELSE LET ref == s1.workflows[key]
                 s2 == [s1 EXCEPT !.heap[ref] = update_from_dict(@, data)]
             IN  [st |-> s2, returns |-> ReturnsDict(s2.heap, ref)]

\* lines 131-156
delete_workflow(st, id, status) ==
    LET s1 == EnsureSampleData(st, status)
        key == AsKey(id)
    IN  IF key \notin DOMAIN s1.workflows
        THEN [st |-> s1, returns |-> ReturnsBool(FALSE), deleted |-> {}]
        ELSE [st |-> [s1 EXCEPT !.workflows = DictDel(@, key)],
              returns |-> ReturnsBool(TRUE), deleted |-> {key}]

\* lines 158-197, filtering by status
search_workflows(st, wanted, status) ==
    LET s1 == EnsureSampleData(st, status)
        hit == {k \in DOMAIN s1.workflows :
                   DictGet(s1.heap[s1.workflows[k]], "status", "") = wanted}
    IN  [st |-> s1,
         returns |-> ReturnsList(s1.heap, [k \in hit |-> s1.workflows[k]])]

\* fault: the copy is numbered by the size of the store
clone_workflow_counts(st, id, status) ==
    LET got == get_workflow_by_id(st, id, status)
        s1 == got.st
    IN  IF got.ref = 0 THEN [st |-> s1, returns |-> ReturnsNone, stored |-> {}]
        ELSE LET original == s1.heap[got.ref]
                 newId == PyInt(Cardinality(DOMAIN s1.workflows) + 1)
                 s2 == [s1 EXCEPT !.next_id = @ + 1]
             IN  IF "name" \notin DOMAIN original
                 THEN [st |-> s2, returns |-> Raises("KeyError"), stored |-> {}]
                 ELSE LET cloned == DictSet(DictSet(DictSet(original, "id", newId),
                                        "name", <<"Copy of ">> \o original["name"]),
                                        "status", "draft")
                          ref == Len(s2.heap) + 1
                          s3 == [s2 EXCEPT !.heap = Append(@, cloned),
                                           !.workflows = DictSet(@, newId, ref)]
                      IN  [st |-> s3, returns |-> ReturnsDict(s3.heap, ref),
                           stored |-> {newId}]

\* lines 199-230; original['name'] of line 222 raises KeyError when the dict
\* has no name, after line 221 has advanced the counter
clone_workflow(st, id, status) ==
    LET got == get_workflow_by_id(st, id, status)
        s1 == got.st
    IN  IF got.ref = 0 THEN [st |-> s1, returns |-> ReturnsNone, stored |-> {}]
        ELSE LET original == s1.heap[got.ref]
                 newId == PyInt(s1.next_id)
                 s2 == [s1 EXCEPT !.next_id = @ + 1]
             IN  IF "name" \notin DOMAIN original
                 THEN [st |-> s2, returns |-> Raises("KeyError"), stored |-> {}]
                 ELSE LET cloned == DictSet(DictSet(DictSet(original, "id", newId),
                                        "name", <<"Copy of ">> \o original["name"]),
                                        "status", "draft")
                          ref == Len(s2.heap) + 1
                          s3 == [s2 EXCEPT !.heap = Append(@, cloned),
                                           !.workflows = DictSet(@, newId, ref)]
                      IN  [st |-> s3, returns |-> ReturnsDict(s3.heap, ref),
                           stored |-> {newId}]

\* lines 232-254: export_data['workflow'] is the stored dict itself
export_workflow(st, id, status) ==
    LET got == get_workflow_by_id(st, id, status)
    IN  [st |-> got.st,
         returns |-> IF got.ref = 0 THEN ReturnsNone
                     ELSE [ret |-> "export", ref |-> got.ref,
                           value |-> got.st.heap[got.ref]],
         exported |-> IF got.ref = 0 THEN {} ELSE {got.ref}]

\* lines 256-286, on the dict object ref that export_data['workflow'] is;
\* ref 0 stands for export data without a workflow dict
import_workflow(st, ref) ==
    IF ref = 0 THEN [st |-> st, returns |-> ReturnsNone, stored |-> {}]
    ELSE LET newId == PyInt(st.next_id)
             s1 == [st EXCEPT !.heap[ref] = DictSet(@, "id", newId),
                              !.next_id = @ + 1,
                              !.workflows = DictSet(@, newId, ref)]
         IN  [st |-> s1, returns |-> ReturnsDict(s1.heap, ref), stored |-> {newId}]

(***************************************************************************)
(* The model store of api/models.py and the agent store of api/agents.py.  *)
(* Of a model dict the model keeps the keys id and name, of an agent dict  *)
(* the keys id, name and modelId.  The model_id and agent_id of a route    *)
(* arrive as str.                                                          *)
(***************************************************************************)
\* the module state the resources of api/models.py and api/agents.py work on
ModelStore ==
    [models |-> models, next_model_id |-> next_model_id, mock_models |-> mock_models,
     agents |-> agents, next_agent_id |-> next_agent_id, mock_agents |-> mock_agents,
     heap |-> heap]

\* mock_data.py lines 269-372: the cached list, or a new one that is cached
generate_LLM_models(st) ==
    IF st.mock_models # <<>> THEN st
    ELSE [st EXCEPT
            !.mock_models = [i \in 1..SampleModels |-> Len(st.heap) + i],
            !.heap = @ \o [i \in 1..SampleModels |->
                             [id |-> PyInt(i), name |-> <<"Model ", Digits(i)>>]]]

\* mock_data.py lines 184-266; uses[i] is the random.randint(1, 4) of line 255
generate_agents(st, uses) ==
    IF st.mock_agents # <<>> THEN st
    ELSE [st EXCEPT
            !.mock_agents = [i \in 1..SampleAgents |-> Len(st.heap) + i],
            !.heap = @ \o [i \in 1..SampleAgents |->
                             [id |-> PyInt(i), name |-> <<"Agent ", Digits(i)>>,
                              modelId |-> PyInt(uses[i])]]]

\* api/models.py lines 22-36
initialize_sample_models(st) ==
    LET s1 == generate_LLM_models(st)
        n == Len(s1.mock_models)
    IN  [s1 EXCEPT
           !.heap = [r \in DOMAIN s1.heap |->
                       IF \E i \in 1..n : s1.mock_models[i] = r
                       THEN DictSet(s1.heap[r], "id",
                                PyInt(CHOOSE i \in 1..n : s1.mock_models[i] = r))
                       ELSE s1.heap[r]],
           !.models = [k \in (DOMAIN s1.models) \cup {PyInt(i) : i \in 1..n} |->
                         IF k[2] \in 1..n THEN s1.mock_models[k[2]] ELSE s1.models[k]],
           !.next_model_id = n + 1]

\* api/agents.py lines 23-37
initialize_sample_agents(st, uses) ==
    LET s1 == generate_agents(st, uses)
        n == Len(s1.mock_agents)
    IN  [s1 EXCEPT
           !.heap = [r \in DOMAIN s1.heap |->
                       IF \E i \in 1..n : s1.mock_agents[i] = r
                       THEN DictSet(s1.heap[r], "id",
                                PyInt(CHOOSE i \in 1..n : s1.mock_agents[i] = r))
                       ELSE s1.heap[r]],
           !.agents = [k \in (DOMAIN s1.agents) \cup {PyInt(i) : i \in 1..n} |->
                         IF k[2] \in 1..n THEN s1.mock_agents[k[2]] ELSE s1.agents[k]],
           !.next_agent_id = n + 1]

\* the model ids the agent generator may draw, when the call is going to run it
UseDraws(st) ==
    IF DOMAIN st.agents = {} /\ st.mock_agents = <<>>
    THEN [1..SampleAgents -> 1..SampleModels]
    ELSE {[i \in 1..SampleAgents |-> 1]}

\* the keys of d in the order they were inserted: both stores insert their
\* keys in increasing order
FirstKey(S) == CHOOSE k \in S : \A x \in S : k[2] <= x[2]

\* ModelListResource.get, api/models.py lines 41-61
ModelListGet(st) ==
    LET s1 == IF DOMAIN st.models = {} THEN initialize_sample_models(st) ELSE st
    IN  [st |-> s1,
         resp |-> Response(200, [models |-> ReturnsList(s1.heap, s1.models).value,
                                 count |-> Cardinality(DOMAIN s1.models)])]

\* ModelListResource.post, api/models.py lines 63-109
ModelListPost(st, data) ==
    IF "name" \notin DOMAIN data
    THEN [st |-> st, resp |-> Response(400, <<"Model name is required">>)]
    ELSE IF "provider" \notin DOMAIN data
    THEN [st |-> st, resp |-> Response(400, <<"Model provider is required">>)]
    ELSE IF "modelId" \notin DOMAIN data
    THEN [st |-> st, resp |-> Response(400, <<"Model ID is required">>)]
    ELSE LET id == PyInt(st.next_model_id)
             ref == Len(st.heap) + 1
             model == [id |-> id, name |-> data["name"]]
         IN  [st |-> [st EXCEPT !.next_model_id = @ + 1,
                                !.heap = Append(@, model),
                                !.models = DictSet(@, id, ref)],
              resp |-> Response(201, model)]

\* ModelResource.get, api/models.py lines 114-137
ModelGet(st, model_id) ==
    LET s1 == IF DOMAIN st.models = {} THEN initialize_sample_models(st) ELSE st
        key == AsKey(model_id)
    IN  [st |-> s1,
         resp |-> IF key \notin DOMAIN s1.models
                  THEN Response(404, <<"Model not found">>)
                  ELSE Response(200, s1.heap[s1.models[key]])]

\* the loop of api/models.py lines 162-164 and api/agents.py lines 158-160
PutKeys(record, data) ==
    DictUpdate(record, [k \in (DOMAIN data) \ {"id", "createdAt"} |-> data[k]])

\* ModelResource.put, api/models.py lines 139-169
ModelPut(st, model_id, data) ==
    LET key == AsKey(model_id)
    IN  IF key \notin DOMAIN st.models
        THEN [st |-> st, resp |-> Response(404, <<"Model not found">>)]
        ELSE LET ref == st.models[key]
                 s1 == [st EXCEPT !.heap[ref] = PutKeys(@, data)]
             IN  [st |-> s1, resp |-> Response(200, s1.heap[ref])]

\* the agents that line 193 of api/models.py finds using the model
UsersOf(st, key) ==
    {a \in DOMAIN st.agents :
        DictGet(st.heap[st.agents[a]], "modelId", PyNone) = key}

\* fault: the model is deleted without a look at the agents
ModelDeleteUnchecked(st, model_id) ==
    LET key == AsKey(model_id)
    IN  IF key \notin DOMAIN st.models
        THEN [st |-> st, resp |-> Response(404, <<"Model not found">>)]
        ELSE [st |-> [st EXCEPT !.models = DictDel(@, key)],
              resp |-> Response(200, <<"Model ", key, " deleted successfully">>)]

\* ModelResource.delete, api/models.py lines 171-201
ModelDelete(st, model_id) ==
    LET key == AsKey(model_id)
    IN  IF key \notin DOMAIN st.models
        THEN [st |-> st, resp |-> Response(404, <<"Model not found">>)]
        ELSE IF UsersOf(st, key) # {}
        THEN LET a == FirstKey(UsersOf(st, key))
             IN  [st |-> st,
                  resp |-> Response(400, <<"Cannot delete model: it is in use by agent ",
                                           a, st.heap[st.agents[a]]["name"]>>)]
        ELSE [st |-> [st EXCEPT !.models = DictDel(@, key)],
              resp |-> Response(200, <<"Model ", key, " deleted successfully">>)]

\* AgentListResource.get, api/agents.py lines 42-62
AgentListGet(st, uses) ==
    LET s1 == IF DOMAIN st.agents = {} THEN initialize_sample_agents(st, uses) ELSE st
    IN  [st |-> s1,
         resp |-> Response(200, [agents |-> ReturnsList(s1.heap, s1.agents).value,
                                 count |-> Cardinality(DOMAIN s1.agents)])]

\* AgentListResource.post, api/agents.py lines 64-105
AgentListPost(st, data) ==
    IF "name" \notin DOMAIN data
    THEN [st |-> st, resp |-> Response(400, <<"Agent name is required">>)]
    ELSE IF "capabilities" \notin DOMAIN data \/ data["capabilities"] = <<>>
    THEN [st |-> st, resp |-> Response(400, <<"Agent capabilities are required">>)]
    ELSE LET id == PyInt(st.next_agent_id)
             ref == Len(st.heap) + 1
             agent == [id |-> id, name |-> data["name"],
                       modelId |-> DictGet(data, "modelId", PyNone)]
         IN  [st |-> [st EXCEPT !.next_agent_id = @ + 1,
                                !.heap = Append(@, agent),
                                !.agents = DictSet(@, id, ref)],
              resp |-> Response(201, agent)]

\* AgentResource.get, api/agents.py lines 110-133
AgentGet(st, agent_id, uses) ==
    LET s1 == IF DOMAIN st.agents = {} THEN initialize_sample_agents(st, uses) ELSE st
        key == AsKey(agent_id)
    IN  [st |-> s1,
         resp |-> IF key \notin DOMAIN s1.agents
                  THEN Response(404, <<"Agent not found">>)
                  ELSE Response(200, s1.heap[s1.agents[key]])]

\* AgentResource.put, api/agents.py lines 135-165
AgentPut(st, agent_id, data) ==
    LET key == AsKey(agent_id)
    IN  IF key \notin DOMAIN st.agents
        THEN [st |-> st, resp |-> Response(404, <<"Agent not found">>)]
        ELSE LET ref == st.agents[key]
                 s1 == [st EXCEPT !.heap[ref] = PutKeys(@, data)]
             IN  [st |-> s1, resp |-> Response(200, s1.heap[ref])]

\* AgentResource.delete, api/agents.py lines 167-189
AgentDelete(st, agent_id) ==
    LET key == AsKey(agent_id)
    IN  IF key \notin DOMAIN st.agents
        THEN [st |-> st, resp |-> Response(404, <<"Agent not found">>)]
        ELSE [st |-> [st EXCEPT !.agents = DictDel(@, key)],
              resp |-> Response(200, <<"Agent ", key, " deleted successfully">>)]

\* the stores when the modules have been imported
StoreInit ==
    /\ workflows = EmptyDict
    /\ next_id = 1
    /\ mock_workflows = <<>>
    /\ models = EmptyDict
    /\ next_model_id = 1
    /\ mock_models = <<>>
    /\ agents = EmptyDict
    /\ next_agent_id = 1
    /\ mock_agents = <<>>
    /\ heap = <<>>
    /\ drawn = 0
    /\ held = {}
    /\ gone = {}

(***************************************************************************)
(* The server handling one request at a time: every action is one whole    *)
(* handler call, from request.get_json() to the return.                    *)
(***************************************************************************)
Idle == [pc |-> "idle"]

Served(op, args, body, resp) ==
    [op |-> op, args |-> args, body |-> body, code |-> resp.code, result |-> resp.body]

Max(S) == CHOOSE x \in S : \A y \in S : y <= x

Init ==
    /\ execution_states = EmptyDict
    /\ clock = 0
    /\ nops = 0
    /\ last = [op |-> "none", args |-> <<>>, body |-> EmptyDict, code |-> 0,
               result |-> <<>>]
    /\ thr = [w \in Threads |-> Idle]
    /\ hist = [base |-> EmptyDict, begun |-> 0, callerIO |-> FALSE,
               replaced |-> "", ended |-> {}, issued |-> {}]
    /\ StoreInit

\* a request arrives while no other request is being served
Ready == nops < MaxOps /\ \A w \in Threads : thr[w].pc = "idle"

\* a body that sets a node's inputs or outputs mapping directly
CarriesIO(op, body) ==
    CASE op = "upsertNodeStatus" -> (DOMAIN body) \cap {"inputs", "outputs"} # {}
      [] op = "upsertExecutionState" ->
            /\ "nodes" \in DOMAIN body
            /\ \E n \in DOMAIN body["nodes"] :
                  (DOMAIN body["nodes"][n]) \cap {"inputs", "outputs"} # {}
      [] OTHER -> FALSE

\* the type of the userAction that a served manual action found on its node
ReplacedType(reg, served) ==
    IF served.op = "applyManualAction" /\ served.code = 200
    THEN DictGet(reg[served.args[1]]["nodes"][served.args[2]], "userAction",
                 [type |-> "none"])["type"]
    ELSE ""

\* the executions of reg whose status says they are over
Ended(reg) == {e \in DOMAIN reg : reg[e]["status"] \in {"completed", "failed"}}

\* the transferId a served request returned, if it returned one
IssuedBy(served) ==
    IF served.op = "transferData" /\ served.code = 200
    THEN {served.result["transferId"]}
    ELSE {}

\* the request has been served; no request is in progress
Settle ==
    /\ nops' = nops + 1
    /\ UNCHANGED storeVars
    /\ thr' = [w \in Threads |-> Idle]
    /\ hist' = [hist EXCEPT !.callerIO = @ \/ CarriesIO(last'.op, last'.body),
                            !.replaced = ReplacedType(execution_states, last'),
                            !.ended = @ \cup Ended(execution_states'),
                            !.issued = @ \cup IssuedBy(last)]

GetNodeStatus ==
    /\ Ready
    /\ \E c \in NodeGetCalls :
          LET e == c[1]  n == c[2] IN
          last' = Served("getNodeStatus", <<e, n>>, EmptyDict,
                         NodeStatusGet(execution_states, e, n))
    /\ UNCHANGED <<execution_states, clock>>
    /\ Settle

UpsertNodeStatus ==
    /\ Ready
    /\ \E c \in NodePutCalls :
          LET e == c[1]  n == c[2]  data == c[3] IN
          \* line 68 reads the clock only when it creates the execution
          \E t0 \in IF NodePutValid(data) /\ e \notin DOMAIN execution_states
                    THEN clock..MaxClock ELSE {clock} :
          \* line 79 or line 85 reads it again
          \E t1 \in IF NodePutValid(data) THEN t0..MaxClock ELSE {t0} :
             /\ execution_states' = NodePutStates(execution_states, e, n, data, t0, t1)
             /\ last' = Served("upsertNodeStatus", <<e, n>>, data,
                               NodePutResponse(execution_states, e, n, data, t0, t1))
             /\ clock' = t1
    /\ Settle

GetExecutionState ==
    /\ Ready
    /\ \E c \in ExecGetCalls :
          LET e == c[1] IN
          last' = Served("getExecutionState", <<e>>, EmptyDict,
                         ExecGet(execution_states, e))
    /\ UNCHANGED <<execution_states, clock>>
    /\ Settle

UpsertExecutionState ==
    /\ Ready
    /\ \E c \in ExecPutCalls :
          LET e == c[1]  data == c[2] IN
          \* line 132 or line 142 reads the clock
          \E t0 \in IF \/ e \notin DOMAIN execution_states
                       \/ DictGet(data, "status", "") \in {"completed", "failed"}
                    THEN clock..MaxClock ELSE {clock} :
          \* line 160 reads it once for every node it creates
          \E tn \in [ExecPutNewNodes(execution_states, e, data) -> t0..MaxClock] :
             /\ execution_states' = ExecPutStates(execution_states, e, data, t0, tn)
             /\ last' = Served("upsertExecutionState", <<e>>, data,
                               ExecPutResponse(execution_states, e, data, t0, tn))
             /\ clock' = Max({t0} \cup {tn[n] : n \in DOMAIN tn})
    /\ Settle

TransferData ==
    /\ Ready
    /\ \E c \in TransferCalls :
          LET e == c[1]  s == c[2]  t == c[3]  data == c[4]
              ok == TransferCheck(execution_states, e, s, t, data).code = 200 IN
          \* line 201, then lines 216 and 225, read the clock
          \E t0 \in IF ok THEN clock..MaxClock ELSE {clock} :
          \E t1 \in IF ok THEN t0..MaxClock ELSE {clock} :
          \E t2 \in IF ok THEN t1..MaxClock ELSE {clock} :
             /\ execution_states' =
                   TransferStates(execution_states, e, s, t, data,
                                  TransferId(t0), t1, t2)
             /\ last' = Served("transferData", <<e, s, t>>, data,
                               TransferResponse(execution_states, e, s, t, data,
                                                TransferId(t0)))
             /\ clock' = t2
    /\ Settle

ApplyManualAction ==
    /\ Ready
    /\ \E c \in ManualCalls :
          LET e == c[1]  n == c[2]  data == c[3] IN
          \* line 271 reads the clock; only a successful call keeps the reading
          \E ts \in IF ManualCheck(execution_states, e, n, data).code = 200
                    THEN clock..MaxClock ELSE {clock} :
             /\ execution_states' = ManualStates(execution_states, e, n, data, ts)
             /\ last' = Served("applyManualAction", <<e, n>>, data,
                               ManualResponse(execution_states, e, n, data, ts))
             /\ clock' = ts
    /\ Settle

Next ==
    \/ GetNodeStatus
    \/ UpsertNodeStatus
    \/ GetExecutionState
    \/ UpsertExecutionState
    \/ TransferData
    \/ ApplyManualAction

Spec == Init /\ [][Next]_vars

(***************************************************************************)
(* The threaded server (app.run in api_server.py serves every request on   *)
(* its own thread, and the handlers take no lock).  A worker runs          *)
(* NodeStatusResource.put or NodeDataTransferResource.post one statement   *)
(* at a time, and the statements of two workers interleave.                *)
(*                                                                         *)
(* A local variable that holds a dict keeps the dict it was given: when    *)
(* another worker re-assigns the slot the dict was read from, the local    *)
(* still points at the old dict, which the registry no longer reaches.     *)
(* thr[w].ref says whether node_data (line 75) is still the registry's     *)
(* node; thr[w].nodes says whether nodes (line 194) is still the           *)
(* registry's nodes dict, and holds the unreachable dict when it is not.   *)
(***************************************************************************)
ConcNodeBodies == { [status |-> "pending"], [status |-> "done", meta |-> "m"] }

ConcNodePutCalls ==
    {<<"e1", n, b>> : n \in NodeIds, b \in ConcNodeBodies}
        \cup {<<"e1", "n1", EmptyDict>>}

ConcTransferCalls ==
    {<<"e1", s, "n1", b>> : s \in NodeIds, b \in {[data |-> "x"], [data |-> "y"]}}

ServerError == Response(500, <<"Internal Server Error">>)

AllIdle == \A w \in Threads : thr[w].pc = "idle"

\* worker w takes up request rec; requests that overlap form one episode
Begin(w, rec) ==
    /\ thr[w].pc = "idle"
    /\ nops < MaxOps
    /\ thr' = [u \in Threads |-> IF u = w THEN rec
                                 ELSE IF AllIdle THEN Idle ELSE thr[u]]
    /\ hist' = [hist EXCEPT
                   !.base = IF AllIdle THEN execution_states ELSE @,
                   !.begun = IF AllIdle THEN 1 ELSE @ + 1,
                   !.callerIO = @ \/ CarriesIO(rec.op, rec.body)]
    /\ nops' = nops + 1
    /\ UNCHANGED storeVars
    /\ UNCHANGED <<execution_states, clock, last>>

Goto(w, pc) == thr' = [thr EXCEPT ![w].pc = pc] /\ UNCHANGED last

\* worker w returns resp
Finish(w, resp) ==
    LET served == Served(thr[w].op, thr[w].args, thr[w].body, resp)
    IN  /\ thr' = [thr EXCEPT ![w] = [pc |-> "idle", done |-> served]]
        /\ last' = served

\* execution_states[e] is re-assigned by worker w: what the other workers hold
AfterExecutionReplaced(w, e) ==
    [u \in Threads |->
        IF u = w \/ thr[u].pc = "idle" THEN thr[u]
        ELSE IF thr[u].args[1] # e THEN thr[u]
        ELSE IF thr[u].op = "transferData" /\ thr[u].nodes[1] = "live"
        THEN [thr[u] EXCEPT !.nodes = <<"orphan", execution_states[e]["nodes"]>>]
        ELSE IF thr[u].op = "upsertNodeStatus" /\ thr[u].ref = "live"
        THEN [thr[u] EXCEPT !.ref = "stale"]
        ELSE thr[u]]

\* execution_states[e]['nodes'][n] is re-assigned by worker w
AfterNodeReplaced(w, e, n) ==
    [u \in Threads |->
        IF u = w \/ thr[u].pc = "idle" THEN thr[u]
        ELSE IF thr[u].op = "upsertNodeStatus" /\ thr[u].args = <<e, n>>
                /\ thr[u].ref = "live"
        THEN [thr[u] EXCEPT !.ref = "stale"]
        ELSE thr[u]]

\* ---- NodeStatusResource.put, lines 46-91 ----
NodePutBegin(w) ==
    \E c \in ConcNodePutCalls :
        Begin(w, [pc |-> "put51", op |-> "upsertNodeStatus", args |-> <<c[1], c[2]>>,
                  body |-> c[3], ref |-> "none"])

\* lines 50-52
NodePut51(w) ==
    /\ thr[w].pc = "put51"
    /\ IF NodePutValid(thr[w].body)
       THEN Goto(w, "put64")
       ELSE Finish(w, Response(400, <<"Node status is required">>))
    /\ UNCHANGED <<execution_states, clock, nops, hist, storeVars>>

\* line 64
NodePut64(w) ==
    /\ thr[w].pc = "put64"
    /\ Goto(w, IF thr[w].args[1] \notin DOMAIN execution_states
               THEN "put65" ELSE "put73")
    /\ UNCHANGED <<execution_states, clock, nops, hist, storeVars>>

\* lines 65-70
NodePut65(w) ==
    LET e == thr[w].args[1] IN
    /\ thr[w].pc = "put65"
    /\ \E t \in clock..MaxClock :
          /\ execution_states' = DictSet(execution_states, e,
                                         NewExecution(e, "running", t))
          /\ clock' = t
    /\ thr' = [AfterExecutionReplaced(w, e) EXCEPT ![w].pc = "put73"]
    /\ UNCHANGED <<nops, last, hist, storeVars>>

\* line 73
NodePut73(w) ==
    LET e == thr[w].args[1]  n == thr[w].args[2] IN
    /\ thr[w].pc = "put73"
    /\ Goto(w, IF n \in DOMAIN execution_states[e]["nodes"]
               THEN "put75" ELSE "put82")
    /\ UNCHANGED <<execution_states, clock, nops, hist, storeVars>>

\* line 75; the lookup raises KeyError when the node has gone
NodePut75(w) ==
    LET e == thr[w].args[1]  n == thr[w].args[2] IN
    /\ thr[w].pc = "put75"
    /\ IF n \in DOMAIN execution_states[e]["nodes"]
       THEN thr' = [thr EXCEPT ![w].pc = "put76", ![w].ref = "live"]
            /\ UNCHANGED last
       ELSE Finish(w, ServerError)
    /\ UNCHANGED <<execution_states, clock, nops, hist, storeVars>>

\* line 76
NodePut76(w) ==
    LET e == thr[w].args[1]  n == thr[w].args[2]
        nodes == execution_states[e]["nodes"] IN
    /\ thr[w].pc = "put76"
    /\ execution_states' =
          IF thr[w].ref = "live"
          THEN WithNodes(execution_states, e,
                         DictSet(nodes, n, DictUpdate(nodes[n], thr[w].body)))
          ELSE execution_states
    /\ Goto(w, "put79")
    /\ UNCHANGED <<clock, nops, hist, storeVars>>

\* line 79
NodePut79(w) ==
    LET e == thr[w].args[1]  n == thr[w].args[2]
        nodes == execution_states[e]["nodes"] IN
    /\ thr[w].pc = "put79"
    /\ \E t \in clock..MaxClock :
          /\ execution_states' =
                IF thr[w].ref = "live"
                THEN WithNodes(execution_states, e,
                               DictSet(nodes, n, DictSet(nodes[n], "lastUpdated", t)))
                ELSE execution_states
          /\ clock' = t
    /\ Goto(w, "put91")
    /\ UNCHANGED <<nops, hist, storeVars>>

\* lines 82-86
NodePut82(w) ==
    LET e == thr[w].args[1]  n == thr[w].args[2]
        nodes == execution_states[e]["nodes"] IN
    /\ thr[w].pc = "put82"
    /\ \E t \in clock..MaxClock :
          /\ execution_states' =
                WithNodes(execution_states, e,
                          DictSet(nodes, n, NewNode(n, thr[w].body["status"], t)))
          /\ clock' = t
    /\ thr' = [AfterNodeReplaced(w, e, n) EXCEPT ![w].pc = "put88"]
    /\ UNCHANGED <<nops, last, hist, storeVars>>

\* line 88; the lookup raises KeyError when the node has gone
NodePut88(w) ==
    LET e == thr[w].args[1]  n == thr[w].args[2]
        nodes == execution_states[e]["nodes"] IN
    /\ thr[w].pc = "put88"
    /\ IF n \in DOMAIN nodes
       THEN /\ execution_states' =
                  WithNodes(execution_states, e,
                            DictSet(nodes, n, DictUpdate(nodes[n], thr[w].body)))
            /\ Goto(w, "put91")
       ELSE /\ Finish(w, ServerError)
            /\ UNCHANGED execution_states
    /\ UNCHANGED <<clock, nops, hist, storeVars>>

\* line 91; the lookup raises KeyError when the node has gone
NodePut91(w) ==
    LET e == thr[w].args[1]  n == thr[w].args[2]
        nodes == execution_states[e]["nodes"] IN
    /\ thr[w].pc = "put91"
    /\ Finish(w, IF n \in DOMAIN nodes THEN Response(200, nodes[n]) ELSE ServerError)
    /\ UNCHANGED <<execution_states, clock, nops, hist, storeVars>>

\* ---- NodeDataTransferResource.post, lines 170-234 ----
\* the dict the local variable nodes of worker w points at
NodesOf(w) ==
    IF thr[w].nodes[1] = "live"
    THEN execution_states[thr[w].args[1]]["nodes"]
    ELSE thr[w].nodes[2]

\* worker w has changed the dict its local nodes points at, and goes to pc
StoreNodes(w, nodes, pc) ==
    IF thr[w].nodes[1] = "live"
    THEN /\ execution_states' = WithNodes(execution_states, thr[w].args[1], nodes)
         /\ Goto(w, pc)
    ELSE /\ thr' = [thr EXCEPT ![w].nodes = <<"orphan", nodes>>, ![w].pc = pc]
         /\ UNCHANGED <<execution_states, last>>

TransferBegin(w) ==
    \E c \in ConcTransferCalls :
        Begin(w, [pc |-> "tr186", op |-> "transferData",
                  args |-> <<c[1], c[2], c[3]>>, body |-> c[4],
                  nodes |-> <<"none">>, tid |-> <<>>])

\* lines 185-198.  The checks read only what never goes away (an execution, a
\* key of its nodes dict), so they are taken in one step, at the last of them.
Transfer186(w) ==
    LET chk == TransferCheck(execution_states, thr[w].args[1], thr[w].args[2],
                             thr[w].args[3], thr[w].body) IN
    /\ thr[w].pc = "tr186"
    /\ IF chk.code = 200
       THEN thr' = [thr EXCEPT ![w].pc = "tr201", ![w].nodes = <<"live">>]
            /\ UNCHANGED last
       ELSE Finish(w, chk)
    /\ UNCHANGED <<execution_states, clock, nops, hist, storeVars>>

\* line 201
Transfer201(w) ==
    /\ thr[w].pc = "tr201"
    /\ \E t \in clock..MaxClock :
          /\ thr' = [thr EXCEPT ![w].pc = "tr212", ![w].tid = TransferId(t)]
          /\ clock' = t
    /\ UNCHANGED <<execution_states, nops, last, hist, storeVars>>

\* line 212
Transfer212(w) ==
    /\ thr[w].pc = "tr212"
    /\ Goto(w, IF "outputs" \notin DOMAIN NodesOf(w)[thr[w].args[2]]
               THEN "tr213" ELSE "tr214")
    /\ UNCHANGED <<execution_states, clock, nops, hist, storeVars>>

\* line 213
Transfer213(w) ==
    LET s == thr[w].args[2]  nodes == NodesOf(w) IN
    /\ thr[w].pc = "tr213"
    /\ StoreNodes(w, DictSet(nodes, s, DictSet(nodes[s], "outputs", EmptyDict)),
                  "tr214")
    /\ UNCHANGED <<clock, nops, hist, storeVars>>

\* lines 214-218; nodes[s]['outputs'] raises KeyError when the mapping has gone
Transfer214(w) ==
    LET s == thr[w].args[2]  t == thr[w].args[3]  nodes == NodesOf(w) IN
    /\ thr[w].pc = "tr214"
    /\ IF "outputs" \in DOMAIN nodes[s]
       THEN \E ts \in clock..MaxClock :
               /\ StoreNodes(w, TransferWriteOutput(nodes, s, t, thr[w].tid, ts),
                             "tr221")
               /\ clock' = ts
       ELSE /\ Finish(w, ServerError)
            /\ UNCHANGED <<execution_states, clock>>
    /\ UNCHANGED <<nops, hist, storeVars>>

\* line 221
Transfer221(w) ==
    /\ thr[w].pc = "tr221"
    /\ Goto(w, IF "inputs" \notin DOMAIN NodesOf(w)[thr[w].args[3]]
               THEN "tr222" ELSE "tr223")
    /\ UNCHANGED <<execution_states, clock, nops, hist, storeVars>>

\* line 222
Transfer222(w) ==
    LET t == thr[w].args[3]  nodes == NodesOf(w) IN
    /\ thr[w].pc = "tr222"
    /\ StoreNodes(w, DictSet(nodes, t, DictSet(nodes[t], "inputs", EmptyDict)),
                  "tr223")
    /\ UNCHANGED <<clock, nops, hist, storeVars>>

\* lines 223-228; nodes[t]['inputs'] raises KeyError when the mapping has gone
Transfer223(w) ==
    LET s == thr[w].args[2]  t == thr[w].args[3]  nodes == NodesOf(w) IN
    /\ thr[w].pc = "tr223"
    /\ IF "inputs" \in DOMAIN nodes[t]
       THEN \E ts \in clock..MaxClock :
               /\ StoreNodes(w, TransferWriteInput(nodes, s, t, thr[w].tid, ts,
                                                   thr[w].body["data"]),
                             "tr230")
               /\ clock' = ts
       ELSE /\ Finish(w, ServerError)
            /\ UNCHANGED <<execution_states, clock>>
    /\ UNCHANGED <<nops, hist, storeVars>>

\* lines 230-234
Transfer230(w) ==
    /\ thr[w].pc = "tr230"
    /\ Finish(w, Response(200,
                [transferId |-> thr[w].tid, status |-> "completed",
                 message |-> <<"Data transferred from ", thr[w].args[2], " to ",
                               thr[w].args[3]>>]))
    /\ UNCHANGED <<execution_states, clock, nops, hist, storeVars>>

ConcNext ==
    \/ UpsertExecutionState
    \/ \E w \in Threads :
          \/ NodePutBegin(w)
          \/ NodePut51(w)
          \/ NodePut64(w)
          \/ NodePut65(w)
          \/ NodePut73(w)
          \/ NodePut75(w)
          \/ NodePut76(w)
          \/ NodePut79(w)
          \/ NodePut82(w)
          \/ NodePut88(w)
          \/ NodePut91(w)
          \/ TransferBegin(w)
          \/ Transfer186(w)
          \/ Transfer201(w)
          \/ Transfer212(w)
          \/ Transfer213(w)
          \/ Transfer214(w)
          \/ Transfer221(w)
          \/ Transfer222(w)
          \/ Transfer223(w)
          \/ Transfer230(w)

ConcSpec == Init /\ [][ConcNext]_vars

(***************************************************************************)
(* Properties of the registry, one request at a time (Spec).               *)
(***************************************************************************)
\* a dict without the keys ks
Without(d, ks) == [k \in (DOMAIN d) \ ks |-> d[k]]

\* C1: a registry operation that returns BadRequest (400) or NotFound (404)
\* leaves the whole registry exactly as it was before the call.
C1_ErrorLeavesRegistryUnchanged ==
    [][last'.code \in {400, 404} => execution_states' = execution_states]_vars

\* transferData has just answered 404 for a missing target node of an
\* execution that holds the source node
C1_Witness ==
    /\ last.op = "transferData"
    /\ last.code = 404
    /\ last.result = <<"Target node ", last.args[3], " not found">>
    /\ last.args[2] \in DOMAIN execution_states[last.args[1]]["nodes"]

\* C5: upsertNodeStatus(e, n, {status: s}) on an executionId that is not in the
\* registry creates the execution record with status "running", a startTime
\* and a node mapping holding exactly n, creates the node record with nodeId n,
\* status s and lastUpdated, and returns that node record.
C5_NodeUpsertCreatesExecution ==
    [][(/\ last'.op = "upsertNodeStatus"
        /\ last'.code = 200
        /\ last'.args[1] \notin DOMAIN execution_states
        /\ "nodeId" \notin DOMAIN last'.body)
       => LET e == last'.args[1]
              n == last'.args[2]
              rec == execution_states'[e]
          IN  /\ DOMAIN rec = {"executionId", "status", "startTime", "nodes"}
              /\ rec["executionId"] = e
              /\ rec["status"] = "running"
              /\ rec["startTime"] \in clock..clock'
              /\ DOMAIN rec["nodes"] = {n}
              /\ rec["nodes"][n]["nodeId"] = n
              /\ rec["nodes"][n]["status"] = last'.body["status"]
              /\ "lastUpdated" \in DOMAIN rec["nodes"][n]
              /\ last'.result = rec["nodes"][n]
              /\ \A x \in DOMAIN execution_states :
                    execution_states'[x] = execution_states[x]]_vars

\* the first request served was an upsertNodeStatus that created its execution
C5_Witness ==
    /\ nops = 1
    /\ last.op = "upsertNodeStatus"
    /\ last.code = 200
    /\ DOMAIN execution_states = {last.args[1]}
    /\ execution_states[last.args[1]]["status"] = "running"

\* C6: upsertNodeStatus with a body that has no status key returns 400 whether
\* or not the execution or the node exists, and creates no execution record.
C6_NodeUpsertRequiresStatus ==
    [][(last'.op = "upsertNodeStatus" /\ "status" \notin DOMAIN last'.body)
       => /\ last'.code = 400
          /\ execution_states' = execution_states]_vars

\* a status-less upsertNodeStatus was refused for an execution that is absent
C6_Witness ==
    /\ last.op = "upsertNodeStatus"
    /\ "status" \notin DOMAIN last.body
    /\ last.code = 400
    /\ last.args[1] \notin DOMAIN execution_states

\* C7: a successful transferData(e, A, B, {data: x}) writes
\* A.outputs[B] = {transferId, timestamp, status "sent"} and
\* B.inputs[A] = {transferId, timestamp, status "received", data x}, with the
\* transferId of the returned confirmation in both stubs; it creates the
\* outputs / inputs mapping when absent and keeps the entries already recorded
\* under the other keys of those mappings.
C7_TransferWritesBothStubs ==
    [][(last'.op = "transferData" /\ last'.code = 200)
       => LET e == last'.args[1]
              s == last'.args[2]
              t == last'.args[3]
              old == execution_states[e]["nodes"]
              new == execution_states'[e]["nodes"]
              oldOut == DictGet(old[s], "outputs", EmptyDict)
              oldIn == DictGet(old[t], "inputs", EmptyDict)
              out == new[s]["outputs"]
              in == new[t]["inputs"]
          IN  /\ DOMAIN out[t] = {"transferId", "timestamp", "status"}
              /\ out[t]["status"] = "sent"
              /\ out[t]["timestamp"] \in clock..clock'
              /\ DOMAIN in[s] = {"transferId", "timestamp", "status", "data"}
              /\ in[s]["status"] = "received"
              /\ in[s]["timestamp"] \in clock..clock'
              /\ in[s]["data"] = last'.body["data"]
              /\ out[t]["transferId"] = last'.result["transferId"]
              /\ in[s]["transferId"] = last'.result["transferId"]
              /\ DOMAIN out = (DOMAIN oldOut) \cup {t}
              /\ \A k \in (DOMAIN oldOut) \ {t} : out[k] = oldOut[k]
              /\ DOMAIN in = (DOMAIN oldIn) \cup {s}
              /\ \A k \in (DOMAIN oldIn) \ {s} : in[k] = oldIn[k]]_vars

\* a transfer succeeded out of a node whose outputs already held another entry
C7_Witness ==
    /\ last.op = "transferData"
    /\ last.code = 200
    /\ LET node == execution_states[last.args[1]]["nodes"][last.args[2]]
       IN  (DOMAIN node["outputs"]) \ {last.args[3]} # {}

\* C8: transferData answers by its first failing precondition: no data in the
\* body, 400; else executionId not in the registry, 404 "Execution not found";
\* else sourceNodeId not in the execution, 404 naming the source; else
\* targetNodeId not in the execution, 404 naming the target; else success.
C8_TransferOutcomeByPrecondition ==
    [][last'.op = "transferData"
       => LET e == last'.args[1]
              s == last'.args[2]
              t == last'.args[3]
          IN  IF "data" \notin DOMAIN last'.body
              THEN last'.code = 400
              ELSE IF e \notin DOMAIN execution_states
              THEN last'.code = 404 /\ last'.result = <<"Execution not found">>
              ELSE IF s \notin DOMAIN execution_states[e]["nodes"]
              THEN /\ last'.code = 404
                   /\ last'.result = <<"Source node ", s, " not found">>
              ELSE IF t \notin DOMAIN execution_states[e]["nodes"]
              THEN /\ last'.code = 404
                   /\ last'.result = <<"Target node ", t, " not found">>
              ELSE last'.code = 200]_vars

\* a transfer between two nodes that are both missing from an existing
\* execution was refused naming the source
C8_Witness ==
    /\ last.op = "transferData"
    /\ last.code = 404
    /\ last.args[1] \in DOMAIN execution_states
    /\ last.args[3] \notin DOMAIN execution_states[last.args[1]]["nodes"]
    /\ last.result = <<"Source node ", last.args[2], " not found">>

\* every key of a node's inputs / outputs mapping names a node of its execution
StubKeysAreNodes ==
    \A e \in DOMAIN execution_states :
        \A n \in DOMAIN execution_states[e]["nodes"] :
            LET node == execution_states[e]["nodes"][n]
            IN  /\ DOMAIN DictGet(node, "outputs", EmptyDict)
                      \subseteq DOMAIN execution_states[e]["nodes"]
                /\ DOMAIN DictGet(node, "inputs", EmptyDict)
                      \subseteq DOMAIN execution_states[e]["nodes"]

\* C9: transferData, successful or not, creates no execution record and no
\* node record; hence, as long as no request body carried an inputs or outputs
\* key, every key of a node's outputs / inputs mapping is a nodeId of the same
\* execution.
C9_TransferCreatesNoRecord ==
    /\ [][last'.op = "transferData"
          => /\ DOMAIN execution_states' = DOMAIN execution_states
             /\ \A e \in DOMAIN execution_states :
                   DOMAIN execution_states'[e]["nodes"]
                       = DOMAIN execution_states[e]["nodes"]]_vars
    /\ [](~hist.callerIO => StubKeysAreNodes)

\* a transfer was recorded in a registry no caller wrote stubs into
C9_Witness ==
    /\ last.op = "transferData"
    /\ last.code = 200
    /\ ~hist.callerIO
    /\ "outputs" \in DOMAIN execution_states[last.args[1]]["nodes"][last.args[2]]

\* C10: a successful transferData leaves the top-level status of the source
\* node and of the target node unchanged, and changes nothing in the registry
\* but the source's outputs mapping and the target's inputs mapping.
C10_TransferKeepsStatus ==
    [][(last'.op = "transferData" /\ last'.code = 200)
       => LET e == last'.args[1]
              s == last'.args[2]
              t == last'.args[3]
              old == execution_states[e]
              new == execution_states'[e]
              touched(n) == (IF n = s THEN {"outputs"} ELSE {})
                                \cup (IF n = t THEN {"inputs"} ELSE {})
          IN  /\ new["nodes"][s]["status"] = old["nodes"][s]["status"]
              /\ new["nodes"][t]["status"] = old["nodes"][t]["status"]
              /\ DOMAIN execution_states' = DOMAIN execution_states
              /\ \A x \in (DOMAIN execution_states) \ {e} :
                    execution_states'[x] = execution_states[x]
              /\ Without(new, {"nodes"}) = Without(old, {"nodes"})
              /\ DOMAIN new["nodes"] = DOMAIN old["nodes"]
              /\ \A n \in DOMAIN old["nodes"] :
                    Without(new["nodes"][n], touched(n))
                        = Without(old["nodes"][n], touched(n))]_vars

\* a transfer succeeded between nodes whose status a caller had set to "done"
C10_Witness ==
    /\ last.op = "transferData"
    /\ last.code = 200
    /\ execution_states[last.args[1]]["nodes"][last.args[2]]["status"] = "done"
    /\ execution_states[last.args[1]]["nodes"][last.args[3]]["status"] = "done"

(***************************************************************************)
(* Properties of the registry under the threaded server (ConcSpec).        *)
(***************************************************************************)
\* worker w is idle and has returned from a request
Returned(w) == thr[w].pc = "idle" /\ "done" \in DOMAIN thr[w]

\* exactly two requests overlapped, both were calls of op, both answered 200
TwoReturned(op) ==
    /\ hist.begun = 2
    /\ \A w \in Threads :
          Returned(w) /\ thr[w].done.op = op /\ thr[w].done.code = 200

\* a node record without its lastUpdated timestamp
NoTime(node) == Without(node, {"lastUpdated"})

\* the node record that upsertNodeStatus(e, n, d1) followed by
\* upsertNodeStatus(e, n, d2) leaves, from registry reg
SerialNode(reg, e, n, d1, d2) ==
    NodePutStates(NodePutStates(reg, e, n, d1, 0, 0), e, n, d2, 0, 0)[e]["nodes"][n]

\* C2: once two overlapping upsertNodeStatus calls with the same executionId
\* and different nodeIds have returned, the execution's node mapping holds
\* both nodes, each with the data its own call wrote.
C2_DifferentNodesIndependent ==
    (/\ TwoReturned("upsertNodeStatus")
     /\ thr[1].done.args[1] = thr[2].done.args[1]
     /\ thr[1].done.args[2] # thr[2].done.args[2])
    => \A w \in Threads :
          LET e == thr[w].done.args[1]
              n == thr[w].done.args[2]
          IN  /\ e \in DOMAIN execution_states
              /\ n \in DOMAIN execution_states[e]["nodes"]
              /\ \A k \in DOMAIN thr[w].done.body :
                    /\ k \in DOMAIN execution_states[e]["nodes"][n]
                    /\ execution_states[e]["nodes"][n][k] = thr[w].done.body[k]

\* C3: once two overlapping successful transferData calls from different
\* sources A and B into the same target C have returned, C's inputs mapping
\* holds an entry for A and an entry for B, each with the data of its own call.
C3_DifferentSourcesDoNotCollide ==
    (/\ TwoReturned("transferData")
     /\ thr[1].done.args[1] = thr[2].done.args[1]
     /\ thr[1].done.args[3] = thr[2].done.args[3]
     /\ thr[1].done.args[2] # thr[2].done.args[2])
    => \A w \in Threads :
          LET e == thr[w].done.args[1]
              s == thr[w].done.args[2]
              t == thr[w].done.args[3]
              node == execution_states[e]["nodes"][t]
          IN  /\ "inputs" \in DOMAIN node
              /\ s \in DOMAIN node["inputs"]
              /\ node["inputs"][s]["data"] = thr[w].done.body["data"]

\* C4: once two overlapping upsertNodeStatus calls on the same node of the
\* same execution have returned, the node record (timestamps aside) is the
\* one that running the two calls one after the other, in one of the two
\* orders, produces.
C4_SameNodeLastWriteWins ==
    (/\ TwoReturned("upsertNodeStatus")
     /\ thr[1].done.args = thr[2].done.args)
    => LET e == thr[1].done.args[1]
           n == thr[1].done.args[2]
           d1 == thr[1].done.body
           d2 == thr[2].done.body
       IN  /\ e \in DOMAIN execution_states
           /\ n \in DOMAIN execution_states[e]["nodes"]
           /\ NoTime(execution_states[e]["nodes"][n])
                 \in { NoTime(SerialNode(hist.base, e, n, d1, d2)),
                       NoTime(SerialNode(hist.base, e, n, d2, d1)) }

(***************************************************************************)
(* Manual actions (ManualNodeInteractionResource.post).                    *)
(***************************************************************************)
\* the keys of the userAction that lines 275-301 build for an action
UserActionKeys(action) ==
    CASE action = "approve" -> {"type", "timestamp", "comment"}
      [] action = "reject" -> {"type", "timestamp", "reason", "comment"}
      [] action = "input" -> {"type", "timestamp", "input"}

\* C11: applyManualAction with a valid action on an existing node is accepted
\* whatever status and userAction the node has: approve sets status
\* "approved" and userAction.type "approval", reject sets "rejected" and
\* "rejection", input (with data.input) sets "running" and userAction type
\* "input" with the input sent; the userAction is replaced as a whole, so the
\* node shows the last action only.
C11_ManualActionIsFlat ==
    [][(/\ last'.op = "applyManualAction"
        /\ "action" \in DOMAIN last'.body
        /\ Lower(last'.body["action"]) \in {"approve", "reject", "input"}
        /\ (Lower(last'.body["action"]) = "input" => "input" \in DOMAIN last'.body)
        /\ last'.args[1] \in DOMAIN execution_states
        /\ last'.args[2] \in DOMAIN execution_states[last'.args[1]]["nodes"])
       => LET action == Lower(last'.body["action"])
              new == execution_states'[last'.args[1]]["nodes"][last'.args[2]]
          IN  /\ last'.code = 200
              /\ new["status"] = CASE action = "approve" -> "approved"
                                   [] action = "reject" -> "rejected"
                                   [] action = "input" -> "running"
              /\ new["userAction"]["type"] =
                    CASE action = "approve" -> "approval"
                      [] action = "reject" -> "rejection"
                      [] action = "input" -> "input"
              /\ action = "input" => new["userAction"]["input"] = last'.body["input"]
              /\ DOMAIN new["userAction"] = UserActionKeys(action)
              /\ new["userAction"]["timestamp"] \in clock..clock'
              /\ last'.result["node"] = new]_vars

\* a node that had been approved was then rejected
C11_Witness ==
    /\ last.op = "applyManualAction"
    /\ last.code = 200
    /\ Lower(last.body["action"]) = "reject"
    /\ hist.replaced = "approval"
    /\ execution_states[last.args[1]]["nodes"][last.args[2]]["status"] = "rejected"

\* C12: applyManualAction with action "input" and no input key in the body,
\* on an execution and a node that exist, returns 400 and leaves the node
\* record (and the rest of the registry) as it was.
C12_InputWithoutDataRefused ==
    [][(/\ last'.op = "applyManualAction"
        /\ "action" \in DOMAIN last'.body
        /\ Lower(last'.body["action"]) = "input"
        /\ "input" \notin DOMAIN last'.body
        /\ last'.args[1] \in DOMAIN execution_states
        /\ last'.args[2] \in DOMAIN execution_states[last'.args[1]]["nodes"])
       => /\ last'.code = 400
          /\ last'.result = <<"Input data is required for input action">>
          /\ execution_states'[last'.args[1]]["nodes"][last'.args[2]]
                = execution_states[last'.args[1]]["nodes"][last'.args[2]]
          /\ execution_states' = execution_states]_vars

\* an input action without input was refused on a node that exists
C12_Witness ==
    /\ last.op = "applyManualAction"
    /\ last.code = 400
    /\ last.result = <<"Input data is required for input action">>
    /\ last.args[1] \in DOMAIN execution_states
    /\ last.args[2] \in DOMAIN execution_states[last.args[1]]["nodes"]

\* C13: applyManualAction with no action, or with an action whose lower-case
\* form is not approve / reject / input, returns 400; with a valid action it
\* returns 404 when the executionId is not in the registry or the nodeId is
\* not in that execution; and no call creates an execution or a node.
C13_ManualActionNeedsTargets ==
    [][last'.op = "applyManualAction"
       => LET e == last'.args[1]
              n == last'.args[2]
              valid == /\ "action" \in DOMAIN last'.body
                       /\ Lower(last'.body["action"]) \in {"approve", "reject", "input"}
          IN  /\ ~valid => last'.code = 400
              /\ (valid /\ e \notin DOMAIN execution_states)
                    => last'.code = 404 /\ last'.result = <<"Execution not found">>
              /\ (/\ valid
                  /\ e \in DOMAIN execution_states
                  /\ n \notin DOMAIN execution_states[e]["nodes"])
                    => last'.code = 404 /\ last'.result = <<"Node not found">>
              /\ DOMAIN execution_states' = DOMAIN execution_states
              /\ \A x \in DOMAIN execution_states :
                    DOMAIN execution_states'[x]["nodes"]
                        = DOMAIN execution_states[x]["nodes"]]_vars

\* an approval spelled in capitals was refused for a node its execution lacks
C13_Witness ==
    /\ last.op = "applyManualAction"
    /\ last.code = 404
    /\ last.body["action"] = "APPROVE"
    /\ last.args[1] \in DOMAIN execution_states
    /\ last.args[2] \notin DOMAIN execution_states[last.args[1]]["nodes"]

(***************************************************************************)
(* The completion marker and the timestamps of the records.                *)
(***************************************************************************)
\* C14: after any upsertExecutionState call whose body carries status
\* "completed" or "failed", the execution record has an endTime, whether the
\* call updated an execution that existed or created it.
C14_FinalStatusSetsEndTime ==
    [][(/\ last'.op = "upsertExecutionState"
        /\ DictGet(last'.body, "status", "") \in {"completed", "failed"})
       => "endTime" \in DOMAIN execution_states'[last'.args[1]]]_vars

\* C15: in every state and for every execution record, endTime is present if
\* and only if the status of that execution has been "completed" or "failed"
\* after some request served so far.
C15_EndTimeIffEverEnded ==
    \A e \in DOMAIN execution_states :
        ("endTime" \in DOMAIN execution_states[e]) <=> (e \in hist.ended)

\* C16: once an execution record has an endTime, it has an endTime after
\* every later request, whatever the request is (a second "completed", a
\* later "running", any node operation).
C16_EndTimeStays ==
    [][\A e \in DOMAIN execution_states :
          "endTime" \in DOMAIN execution_states[e]
              => /\ e \in DOMAIN execution_states'
                 /\ "endTime" \in DOMAIN execution_states'[e]]_vars

\* an execution that had ended was set back to "running" and kept its endTime
C16_Witness ==
    /\ last.op = "upsertExecutionState"
    /\ DictGet(last.body, "status", "") = "running"
    /\ last.args[1] \in hist.ended
    /\ "endTime" \in DOMAIN execution_states[last.args[1]]
    /\ execution_states[last.args[1]]["status"] = "running"

\* C17: once an execution's endTime has been set, no later request changes
\* its value.
C17_EndTimeSetOnce ==
    [][\A e \in DOMAIN execution_states :
          "endTime" \in DOMAIN execution_states[e]
              => /\ e \in DOMAIN execution_states'
                 /\ "endTime" \in DOMAIN execution_states'[e]
                 /\ execution_states'[e]["endTime"] = execution_states[e]["endTime"]]_vars

\* C18: the startTime an execution record was created with is the startTime
\* it has after every later request.
C18_StartTimeImmutable ==
    [][\A e \in DOMAIN execution_states :
          /\ e \in DOMAIN execution_states'
          /\ execution_states'[e]["startTime"] = execution_states[e]["startTime"]]_vars

\* C19: after any request that creates a node record or changes any field of
\* one, that node's lastUpdated is a clock reading of that request: it is not
\* older than the last reading taken before the request.
C19_LastUpdatedRefreshed ==
    [][\A e \in DOMAIN execution_states' :
          \A n \in DOMAIN execution_states'[e]["nodes"] :
             LET new == execution_states'[e]["nodes"][n]
                 changed == \/ e \notin DOMAIN execution_states
                            \/ n \notin DOMAIN execution_states[e]["nodes"]
                            \/ execution_states[e]["nodes"][n] # new
             IN  changed => new["lastUpdated"] \in clock..clock']_vars

(***************************************************************************)
(* upsertExecutionState (ExecutionStateResource.put).                      *)
(***************************************************************************)
\* C20: upsertExecutionState answers 200 with the execution record for every
\* executionId and every body (a JSON object; the entries of its nodes
\* mapping, when it has one, are JSON objects), whether or not the execution
\* exists; when it does not, the record is created with the body's status if
\* it has one and "running" otherwise, with a startTime, and with no nodes
\* but those the body's nodes mapping brings.
C20_ExecUpsertAlwaysSucceeds ==
    [][last'.op = "upsertExecutionState"
       => LET e == last'.args[1]
              data == last'.body
          IN  /\ last'.code = 200
              /\ e \in DOMAIN execution_states'
              /\ last'.result = execution_states'[e]
              /\ e \notin DOMAIN execution_states
                    => LET rec == execution_states'[e]
                       IN  /\ "executionId" \notin DOMAIN data
                                 => rec["executionId"] = e
                           /\ rec["status"] = DictGet(data, "status", "running")
                           /\ "startTime" \in DOMAIN rec
                           /\ "startTime" \notin DOMAIN data
                                 => rec["startTime"] \in clock..clock'
                           /\ DOMAIN rec["nodes"]
                                 = DOMAIN DictGet(data, "nodes", EmptyDict)]_vars

\* a body without status created an execution, which started out "running"
C20_Witness ==
    /\ nops = 1
    /\ last.op = "upsertExecutionState"
    /\ "status" \notin DOMAIN last.body
    /\ last.code = 200
    /\ DOMAIN execution_states = {last.args[1]}
    /\ execution_states[last.args[1]]["status"] = "running"

\* C21: upsertExecutionState copies every top-level key of the body other
\* than nodes onto the record as sent and never replaces the nodes mapping as
\* a whole: node records the body's nodes mapping does not name are
\* unchanged, top-level keys the body does not name keep their values, and a
\* body without a nodes key leaves the node mapping unchanged.
C21_ExecUpsertFrame ==
    [][last'.op = "upsertExecutionState"
       => LET e == last'.args[1]
              data == last'.body
              new == execution_states'[e]
              named == DOMAIN DictGet(data, "nodes", EmptyDict)
          IN  /\ \A k \in (DOMAIN data) \ {"nodes"} : new[k] = data[k]
              /\ e \in DOMAIN execution_states
                    => LET old == execution_states[e]
                       IN  /\ \A k \in (DOMAIN old) \ ((DOMAIN data) \cup {"nodes"}) :
                                 k \in DOMAIN new /\ new[k] = old[k]
                           /\ \A n \in (DOMAIN old["nodes"]) \ named :
                                 /\ n \in DOMAIN new["nodes"]
                                 /\ new["nodes"][n] = old["nodes"][n]
                           /\ "nodes" \notin DOMAIN data
                                 => new["nodes"] = old["nodes"]]_vars

\* C22: on the nodes path of upsertExecutionState, for every entry
\* (nodeId, partial) of the body's nodes mapping: a node that exists gets the
\* partial merged key by key, and keeps its lastUpdated unless the partial
\* carries one; a node that does not exist is created with nodeId, status (the
\* partial's, else "pending") and lastUpdated = now, and then gets the
\* partial's keys; the call succeeds whether or not a partial has a status.
C22_BulkNodePath ==
    [][(last'.op = "upsertExecutionState" /\ "nodes" \in DOMAIN last'.body)
       => LET e == last'.args[1]
              upd == last'.body["nodes"]
              existed(n) == /\ e \in DOMAIN execution_states
                            /\ n \in DOMAIN execution_states[e]["nodes"]
          IN  /\ last'.code = 200
              /\ \A n \in DOMAIN upd :
                    LET new == execution_states'[e]["nodes"][n]
                    IN  IF existed(n)
                        THEN LET old == execution_states[e]["nodes"][n]
                             IN  /\ new = DictUpdate(old, upd[n])
                                 /\ "lastUpdated" \notin DOMAIN upd[n]
                                       => new["lastUpdated"] = old["lastUpdated"]
                        ELSE /\ DOMAIN new = {"nodeId", "status", "lastUpdated"}
                                                \cup DOMAIN upd[n]
                             /\ \A k \in DOMAIN upd[n] : new[k] = upd[n][k]
                             /\ "nodeId" \notin DOMAIN upd[n] => new["nodeId"] = n
                             /\ new["status"] = DictGet(upd[n], "status", "pending")
                             /\ "lastUpdated" \notin DOMAIN upd[n]
                                   => new["lastUpdated"] \in clock..clock']_vars

\* a partial that carries its own lastUpdated and no status was merged into a
\* node that upsertNodeStatus had written before
C22_Witness ==
    /\ last.op = "upsertExecutionState"
    /\ last.code = 200
    /\ "nodes" \in DOMAIN last.body
    /\ "n1" \in DOMAIN last.body["nodes"]
    /\ "lastUpdated" \in DOMAIN last.body["nodes"]["n1"]
    /\ LET node == execution_states[last.args[1]]["nodes"]["n1"]
       IN  /\ "meta" \in DOMAIN node
           /\ node["status"] = "done"
           /\ node["lastUpdated"] = last.body["nodes"]["n1"]["lastUpdated"]

(***************************************************************************)
(* upsertNodeStatus on a node that exists, and the reads.                  *)
(***************************************************************************)
\* C23: upsertNodeStatus on a node that exists merges the body key by key:
\* every key of the body takes the value sent, every other key of the node
\* (inputs, outputs and userAction recorded earlier among them) keeps its
\* value, and lastUpdated is then set to now, also when the body carries a
\* lastUpdated of its own.
C23_NodeUpsertMerges ==
    [][(/\ last'.op = "upsertNodeStatus"
        /\ "status" \in DOMAIN last'.body
        /\ last'.args[1] \in DOMAIN execution_states
        /\ last'.args[2] \in DOMAIN execution_states[last'.args[1]]["nodes"])
       => LET data == last'.body
              old == execution_states[last'.args[1]]["nodes"][last'.args[2]]
              new == execution_states'[last'.args[1]]["nodes"][last'.args[2]]
          IN  /\ last'.code = 200
              /\ DOMAIN new = (DOMAIN old) \cup (DOMAIN data)
              /\ \A k \in (DOMAIN data) \ {"lastUpdated"} : new[k] = data[k]
              /\ \A k \in (DOMAIN old) \ ((DOMAIN data) \cup {"lastUpdated"}) :
                    new[k] = old[k]
              /\ new["lastUpdated"] \in clock..clock'
              /\ last'.result = new]_vars

\* a body with a lastUpdated of its own was merged into a node that had a
\* userAction, and the node was stamped with the clock
C23_Witness ==
    /\ last.op = "upsertNodeStatus"
    /\ last.code = 200
    /\ "lastUpdated" \in DOMAIN last.body
    /\ LET node == execution_states[last.args[1]]["nodes"][last.args[2]]
       IN  /\ "userAction" \in DOMAIN node
           /\ node["lastUpdated"] # last.body["lastUpdated"]

\* C24: a getExecutionState(e) served right after upsertExecutionState(e, d)
\* returns the record the upsert returned, and a getExecutionState(e) served
\* right after a successful getExecutionState(e) returns the same record again.
C24_ReadAfterUpsert ==
    [][(/\ last'.op = "getExecutionState"
        /\ last.op \in {"upsertExecutionState", "getExecutionState"}
        /\ last.code = 200
        /\ last.args[1] = last'.args[1])
       => /\ last'.code = 200
          /\ last'.result = last.result]_vars

\* the second request served read the execution that the first, an
\* upsertExecutionState with a label, had created
C24_Witness ==
    /\ nops = 2
    /\ last.op = "getExecutionState"
    /\ last.code = 200
    /\ "label" \in DOMAIN last.result
    /\ last.result = execution_states[last.args[1]]

\* C25: the reads change nothing and create nothing: getExecutionState
\* answers 404 for an executionId that is not in the registry,
\* getNodeStatus answers 404 when the execution is missing and 404 when the
\* execution is there and the node is missing, and after a read, successful
\* or not, the registry is what it was.
C25_ReadsAreSideEffectFree ==
    [][last'.op \in {"getExecutionState", "getNodeStatus"}
       => LET reg == execution_states
              e == last'.args[1]
          IN  /\ execution_states' = reg
              /\ e \notin DOMAIN reg
                    => last'.code = 404 /\ last'.result = <<"Execution not found">>
              /\ (last'.op = "getExecutionState" /\ e \in DOMAIN reg)
                    => last'.code = 200 /\ last'.result = reg[e]
              /\ (last'.op = "getNodeStatus" /\ e \in DOMAIN reg)
                    => IF last'.args[2] \in DOMAIN reg[e]["nodes"]
                       THEN /\ last'.code = 200
                            /\ last'.result = reg[e]["nodes"][last'.args[2]]
                       ELSE /\ last'.code = 404
                            /\ last'.result = <<"Node not found in this execution">>]_vars

\* a node was asked for that its execution, which exists, does not have
C25_Witness ==
    /\ last.op = "getNodeStatus"
    /\ last.code = 404
    /\ last.args[1] \in DOMAIN execution_states
    /\ last.args[2] \notin DOMAIN execution_states[last.args[1]]["nodes"]

(***************************************************************************)
(* A scripted client: after any requests that leave execution "e1" out of  *)
(* the registry, it sends the five requests of ScenarioCalls, one after    *)
(* the other, to the one-request-at-a-time server.  hist.base is the       *)
(* registry the script started from and hist.begun the number of its       *)
(* requests served.                                                        *)
(***************************************************************************)
ScenarioCalls ==
    << [op |-> "upsertNodeStatus", args |-> <<"e1", "n1">>,
        body |-> [status |-> "pending"]],
       [op |-> "transferData", args |-> <<"e1", "n1", "n2">>,
        body |-> [data |-> "hi"]],
       [op |-> "upsertNodeStatus", args |-> <<"e1", "n2">>,
        body |-> [status |-> "pending"]],
       [op |-> "transferData", args |-> <<"e1", "n1", "n2">>,
        body |-> [data |-> "hi"]],
       [op |-> "getNodeStatus", args |-> <<"e1", "n2">>, body |-> EmptyDict] >>

\* the next request of the script is a call of op
ScenarioAt(op) ==
    /\ AllIdle
    /\ hist.begun < Len(ScenarioCalls)
    /\ ScenarioCalls[hist.begun + 1].op = op
    /\ hist.begun = 0 => "e1" \notin DOMAIN execution_states

\* the request of the script has been served
ScenarioSettle ==
    /\ nops' = nops + 1
    /\ UNCHANGED storeVars
    /\ thr' = [w \in Threads |-> Idle]
    /\ hist' = [hist EXCEPT
                   !.base = IF hist.begun = 0 THEN execution_states ELSE @,
                   !.begun = @ + 1,
                   !.callerIO = @ \/ CarriesIO(last'.op, last'.body),
                   !.replaced = ReplacedType(execution_states, last'),
                   !.ended = @ \cup Ended(execution_states'),
                   !.issued = @ \cup IssuedBy(last)]

\* requests before the script: any request that leaves "e1" out
ScenarioPrefix ==
    /\ hist.begun = 0
    /\ Next
    /\ "e1" \notin DOMAIN execution_states'

ScenarioUpsertNode ==
    /\ ScenarioAt("upsertNodeStatus")
    /\ LET c == ScenarioCalls[hist.begun + 1]
           e == c.args[1]  n == c.args[2]  data == c.body IN
       \E t0 \in IF e \notin DOMAIN execution_states
                 THEN clock..MaxClock ELSE {clock} :
       \E t1 \in t0..MaxClock :
          /\ execution_states' = NodePutStates(execution_states, e, n, data, t0, t1)
          /\ last' = Served(c.op, c.args, data,
                            NodePutResponse(execution_states, e, n, data, t0, t1))
          /\ clock' = t1
    /\ ScenarioSettle

ScenarioTransfer ==
    /\ ScenarioAt("transferData")
    /\ LET c == ScenarioCalls[hist.begun + 1]
           e == c.args[1]  s == c.args[2]  t == c.args[3]  data == c.body
           ok == TransferCheck(execution_states, e, s, t, data).code = 200 IN
       \E t0 \in IF ok THEN clock..MaxClock ELSE {clock} :
       \E t1 \in IF ok THEN t0..MaxClock ELSE {clock} :
       \E t2 \in IF ok THEN t1..MaxClock ELSE {clock} :
          /\ execution_states' =
                TransferStates(execution_states, e, s, t, data, TransferId(t0), t1, t2)
          /\ last' = Served(c.op, c.args, data,
                            TransferResponse(execution_states, e, s, t, data,
                                             TransferId(t0)))
          /\ clock' = t2
    /\ ScenarioSettle

ScenarioGetNode ==
    /\ ScenarioAt("getNodeStatus")
    /\ LET c == ScenarioCalls[hist.begun + 1] IN
       last' = Served(c.op, c.args, c.body,
                      NodeStatusGet(execution_states, c.args[1], c.args[2]))
    /\ UNCHANGED <<execution_states, clock>>
    /\ ScenarioSettle

ScenarioNext ==
    \/ ScenarioPrefix
    \/ ScenarioUpsertNode
    \/ ScenarioTransfer
    \/ ScenarioGetNode

ScenarioSpec == Init /\ [][ScenarioNext]_vars

\* C26: from a registry without the execution, upsertNodeStatus(e, n1,
\* {status: pending}) succeeds and creates the execution; transferData(e, n1,
\* n2, {data: hi}) then answers 404 because n2 is absent;
\* upsertNodeStatus(e, n2, {status: pending}) then succeeds; the same
\* transferData then succeeds and returns a transferId; and
\* getNodeStatus(e, n2) then shows inputs[n1].data = hi.
C26_Scenario ==
    /\ hist.begun = 1
          => /\ last.code = 200
             /\ "e1" \in DOMAIN execution_states
             /\ DOMAIN execution_states["e1"]["nodes"] = {"n1"}
    /\ hist.begun = 2
          => /\ last.code = 404
             /\ last.result = <<"Target node ", "n2", " not found">>
    /\ hist.begun = 3
          => /\ last.code = 200
             /\ DOMAIN execution_states["e1"]["nodes"] = {"n1", "n2"}
    /\ hist.begun = 4
          => /\ last.code = 200
             /\ "transferId" \in DOMAIN last.result
    /\ hist.begun = 5
          => /\ last.code = 200
             /\ "inputs" \in DOMAIN last.result
             /\ "n1" \in DOMAIN last.result["inputs"]
             /\ last.result["inputs"]["n1"]["data"] = "hi"
             /\ last.result["inputs"]["n1"]["transferId"] \in hist.issued

\* the script ran to its end and its read of n2 was answered
C26_Witness ==
    /\ hist.begun = Len(ScenarioCalls)
    /\ last.op = "getNodeStatus"
    /\ last.args = <<"e1", "n2">>
    /\ last.code = 200

(***************************************************************************)
(* Records, their keys and their owners.                                   *)
(***************************************************************************)
\* C27: records are never deleted: an executionId that is in the registry is
\* in the registry after every later step, and a nodeId that is in an
\* execution's node mapping is in that mapping after every later step, for
\* requests served one after the other and for requests that overlap.
C27_RecordsNeverDeleted ==
    [][\A e \in DOMAIN execution_states :
          /\ e \in DOMAIN execution_states'
          /\ DOMAIN execution_states[e]["nodes"]
                \subseteq DOMAIN execution_states'[e]["nodes"]]_vars

\* C28: in every state, the nodeId field of every node record is the key the
\* record is stored under in its execution's node mapping.
C28_NodeIdIsKey ==
    \A e \in DOMAIN execution_states :
        \A n \in DOMAIN execution_states[e]["nodes"] :
            execution_states[e]["nodes"][n]["nodeId"] = n

\* C29: a request addressed to executionId e leaves the record of every
\* other execution as it was, top-level fields and node records alike, also
\* when both executions have a node with the same nodeId.
C29_ExecutionsAreSeparate ==
    [][\A x \in (DOMAIN execution_states) \ {last'.args[1]} :
          /\ x \in DOMAIN execution_states'
          /\ execution_states'[x] = execution_states[x]]_vars

\* a node was written in one of two executions that both have that nodeId
C29_Witness ==
    /\ last.op \in {"upsertNodeStatus", "transferData", "applyManualAction"}
    /\ last.code = 200
    /\ \E x \in (DOMAIN execution_states) \ {last.args[1]} :
          /\ last.args[2] \in DOMAIN execution_states[x]["nodes"]
          /\ execution_states[x]["nodes"][last.args[2]]
                # execution_states[last.args[1]]["nodes"][last.args[2]]

\* C30: transferIds are unique: the transferId a successful transferData
\* returns is none of the transferIds that the successful transfers before it
\* returned.
C30_TransferIdsUnique ==
    (last.op = "transferData" /\ last.code = 200)
        => last.result["transferId"] \notin hist.issued

(***************************************************************************)
(* C32 .. C40                                                              *)
(***************************************************************************)
\* the outputs and the inputs mapping of a node, empty when it has none
OutputsOf(nodes, a) == DictGet(nodes[a], "outputs", EmptyDict)

InputsOf(nodes, b) == DictGet(nodes[b], "inputs", EmptyDict)

\* C32: while requests are served one at a time and no request body has carried
\* an inputs or outputs key, for all nodes A and B of one execution
\* A.outputs[B] is present exactly when B.inputs[A] is present, and the two
\* stubs carry the same transferId.
C32_CrossLinked ==
    ~hist.callerIO =>
        \A e \in DOMAIN execution_states :
            LET nodes == execution_states[e]["nodes"] IN
            \A a \in DOMAIN nodes, b \in DOMAIN nodes :
                /\ (b \in DOMAIN OutputsOf(nodes, a)) <=> (a \in DOMAIN InputsOf(nodes, b))
                /\ b \in DOMAIN OutputsOf(nodes, a) =>
                      OutputsOf(nodes, a)[b]["transferId"]
                          = InputsOf(nodes, b)[a]["transferId"]

\* a transfer from n1 to n2 has been recorded, none from n2 to n1
C32_Witness ==
    /\ ~hist.callerIO
    /\ last.op = "transferData" /\ last.code = 200
    /\ "e1" \in DOMAIN execution_states
    /\ LET nodes == execution_states["e1"]["nodes"] IN
          /\ {"n1", "n2"} \subseteq DOMAIN nodes
          /\ "n2" \in DOMAIN OutputsOf(nodes, "n1")
          /\ "n1" \in DOMAIN InputsOf(nodes, "n2")
          /\ "n1" \notin DOMAIN OutputsOf(nodes, "n2")

(***************************************************************************)
(* Two workers serving transferData on an execution whose nodes exist.     *)
(* The server came up on the last clock reading of a second, so that the   *)
(* int(time.time()) of line 201 can fall into different seconds.           *)
(***************************************************************************)
RaceInit ==
    /\ execution_states =
          ExecPutStates(EmptyDict, "e1", [nodes |-> [n \in NodeIds |-> EmptyDict]],
                        -1, [n \in NodeIds |-> -1])
    /\ clock = -1
    /\ nops = 0
    /\ last = [op |-> "none", args |-> <<>>, body |-> EmptyDict, code |-> 0,
               result |-> <<>>]
    /\ thr = [w \in Threads |-> Idle]
    /\ hist = [base |-> EmptyDict, begun |-> 0, callerIO |-> FALSE,
               replaced |-> "", ended |-> {}, issued |-> {}]
    /\ StoreInit

RaceNext ==
    \E w \in Threads :
        \/ TransferBegin(w)
        \/ Transfer186(w)
        \/ Transfer201(w)
        \/ Transfer212(w)
        \/ Transfer213(w)
        \/ Transfer214(w)
        \/ Transfer221(w)
        \/ Transfer222(w)
        \/ Transfer223(w)
        \/ Transfer230(w)

RaceSpec == RaceInit /\ [][RaceNext]_vars

\* both workers have returned 200 from overlapping transfers a -> b of
\* execution e, with different transferIds
TwoTransfersReturned(e, a, b) ==
    /\ \A w \in Threads :
          /\ thr[w].pc = "idle"
          /\ "done" \in DOMAIN thr[w]
          /\ thr[w].done.op = "transferData"
          /\ thr[w].done.args = <<e, a, b>>
          /\ thr[w].done.code = 200
    /\ thr[1].done.result["transferId"] # thr[2].done.result["transferId"]

\* C33: once two overlapping transferData calls with the same execution,
\* source A and target B that obtained different transferIds have both returned,
\* A.outputs[B].transferId equals B.inputs[A].transferId.
C33_StubsAgreeAfterRace ==
    \A e \in ExecIds, a \in NodeIds, b \in NodeIds :
        TwoTransfersReturned(e, a, b) =>
            LET nodes == execution_states[e]["nodes"] IN
            OutputsOf(nodes, a)[b]["transferId"] = InputsOf(nodes, b)[a]["transferId"]

\* C34: in every reachable state the executionId field of every execution
\* record equals the key under which the registry stores the record.
C34_ExecutionIdIsKey ==
    \A e \in DOMAIN execution_states : execution_states[e]["executionId"] = e

\* C35: a successful upsertNodeStatus(e, n, ..) or applyManualAction(e, n, ..)
\* on an execution that exists changes only node n's record: the other
\* executions, the top-level fields of e and every other node record of e are
\* unchanged; and applyManualAction leaves every field of n other than status,
\* userAction and lastUpdated (inputs and outputs among them) unchanged.
C35_NodeScopedEffect ==
    [][(/\ last'.op \in {"upsertNodeStatus", "applyManualAction"}
        /\ last'.code = 200
        /\ last'.args[1] \in DOMAIN execution_states)
       => LET e == last'.args[1]
              n == last'.args[2]
              old == execution_states[e]
              new == execution_states'[e]
          IN  /\ DOMAIN execution_states' = DOMAIN execution_states
              /\ \A x \in DOMAIN execution_states \ {e} :
                    execution_states'[x] = execution_states[x]
              /\ DOMAIN new = DOMAIN old
              /\ \A k \in DOMAIN old \ {"nodes"} : new[k] = old[k]
              /\ DOMAIN new["nodes"] = DOMAIN old["nodes"] \cup {n}
              /\ \A x \in DOMAIN old["nodes"] \ {n} : new["nodes"][x] = old["nodes"][x]
              /\ last'.op = "applyManualAction" =>
                    LET kept == {"status", "userAction", "lastUpdated"} IN
                    /\ DOMAIN new["nodes"][n] \ kept = DOMAIN old["nodes"][n] \ kept
                    /\ \A k \in DOMAIN old["nodes"][n] \ kept :
                          new["nodes"][n][k] = old["nodes"][n][k]]_vars

\* a manual action was applied to a node that holds a transfer stub, in an
\* execution that has a second node
C35_Witness ==
    /\ last.op = "applyManualAction"
    /\ last.code = 200
    /\ LET nodes == execution_states[last.args[1]]["nodes"] IN
          /\ DOMAIN nodes = NodeIds
          /\ (DOMAIN nodes[last.args[2]]) \cap {"inputs", "outputs"} # {}

\* C36: applyManualAction checks the action first, then that the execution and
\* the node exist, then the input field: a missing or invalid action is
\* answered 400 even when the execution or the node does not exist, and a
\* valid action, "input" without an input field included, is answered 404 when
\* the execution or the node does not exist.
C36_ManualValidationOrder ==
    [][last'.op = "applyManualAction"
       => LET e == last'.args[1]
              n == last'.args[2]
              data == last'.body
              bad == \/ "action" \notin DOMAIN data
                     \/ Lower(data["action"]) \notin {"approve", "reject", "input"}
              missing == \/ e \notin DOMAIN execution_states
                         \/ n \notin DOMAIN execution_states[e]["nodes"]
              noInput == /\ ~bad
                         /\ Lower(data["action"]) = "input"
                         /\ "input" \notin DOMAIN data
          IN  /\ (bad /\ missing) => last'.code = 400
              /\ (noInput /\ missing) => last'.code = 404
              /\ (noInput /\ ~missing) =>
                    /\ last'.code = 400
                    /\ last'.result = <<"Input data is required for input action">>]_vars

\* action "input" without an input field was answered 404 for a node that the
\* execution lacks
C36_Witness ==
    /\ last.op = "applyManualAction"
    /\ last.code = 404
    /\ "action" \in DOMAIN last.body
    /\ last.body["action"] = "input"
    /\ "input" \notin DOMAIN last.body
    /\ last.args[1] \in DOMAIN execution_states
    /\ last.args[2] \notin DOMAIN execution_states[last.args[1]]["nodes"]

(***************************************************************************)
(* The workflow store, one call of a function of workflow_manager.py at a  *)
(* time.                                                                   *)
(***************************************************************************)
\* the ids the callers pass: the sample ids, the first id the counter gives
\* out after them, a str of digits and the first uuid
WorkflowIds ==
    {PyInt(i) : i \in 1..SampleWorkflows + 1} \cup {PyStr(1), Uuid(1)}

\* the ids that update, clone and export are called with: a sample workflow
\* by a str of digits, the first id the counter gives out after the samples,
\* and the first uuid
EditIds == {PyStr(1), PyInt(SampleWorkflows + 1), Uuid(1)}

CreateBodies == { [name |-> <<"w">>] }

UpdateBodies == { [name |-> <<"r">>, id |-> PyInt(9), colour |-> "red"] }

\* the workflow dicts of export data that a caller builds itself
ImportBodies == { [name |-> <<"i">>], EmptyDict }

Called(op, args, body, returns) ==
    [op |-> op, args |-> args, body |-> body, code |-> 0, result |-> returns]

\* the call has returned and left the module state st
AfterCall(st) ==
    /\ workflows' = st.workflows
    /\ next_id' = st.next_id
    /\ mock_workflows' = st.mock
    /\ heap' = st.heap
    /\ nops' = nops + 1
    /\ UNCHANGED <<registryVars, modelVars>>

GetAllWorkflows ==
    /\ nops < MaxOps
    /\ \E status \in StatusDraws(WorkflowStore) :
          LET r == get_all_workflows(WorkflowStore, status) IN
          /\ AfterCall(r.st)
          /\ last' = Called("get_all_workflows", <<>>, EmptyDict, r.returns)
    /\ UNCHANGED <<drawn, held, gone>>

GetWorkflowById ==
    /\ nops < MaxOps
    /\ \E id \in WorkflowIds, status \in StatusDraws(WorkflowStore) :
          LET r == get_workflow_by_id(WorkflowStore, id, status) IN
          /\ AfterCall(r.st)
          /\ last' = Called("get_workflow_by_id", <<id>>, EmptyDict,
                            IF r.ref = 0 THEN ReturnsNone
                            ELSE ReturnsDict(r.st.heap, r.ref))
    /\ UNCHANGED <<drawn, held, gone>>

CreateWorkflow ==
    /\ nops < MaxOps
    /\ \E data \in CreateBodies, status \in StatusDraws(WorkflowStore) :
          LET r == create_workflow(WorkflowStore, data, status, Uuid(drawn + 1)) IN
          /\ AfterCall(r.st)
          /\ last' = Called("create_workflow", <<>>, data, r.returns)
          /\ gone' = gone \ r.stored
    /\ drawn' = drawn + 1
    /\ UNCHANGED held

UpdateWorkflow ==
    /\ nops < MaxOps
    /\ \E id \in EditIds, data \in UpdateBodies,
          status \in StatusDraws(WorkflowStore) :
          LET r == update_workflow(WorkflowStore, id, data, status) IN
          /\ AfterCall(r.st)
          /\ last' = Called("update_workflow", <<id>>, data, r.returns)
    /\ UNCHANGED <<drawn, held, gone>>

DeleteWorkflow ==
    /\ nops < MaxOps
    /\ \E id \in WorkflowIds, status \in StatusDraws(WorkflowStore) :
          LET r == delete_workflow(WorkflowStore, id, status) IN
          /\ AfterCall(r.st)
          /\ last' = Called("delete_workflow", <<id>>, EmptyDict, r.returns)
          /\ gone' = gone \cup r.deleted
    /\ UNCHANGED <<drawn, held>>

SearchWorkflows ==
    /\ nops < MaxOps
    /\ \E status \in StatusDraws(WorkflowStore) :
          LET r == search_workflows(WorkflowStore, "draft", status) IN
          /\ AfterCall(r.st)
          /\ last' = Called("search_workflows", <<"draft">>, EmptyDict, r.returns)
    /\ UNCHANGED <<drawn, held, gone>>

CloneWorkflow ==
    /\ nops < MaxOps
    /\ \E id \in EditIds, status \in StatusDraws(WorkflowStore) :
          LET r == clone_workflow(WorkflowStore, id, status) IN
          /\ AfterCall(r.st)
          /\ last' = Called("clone_workflow", <<id>>, EmptyDict, r.returns)
          /\ gone' = gone \ r.stored
    /\ UNCHANGED <<drawn, held>>

ExportWorkflow ==
    /\ nops < MaxOps
    /\ \E id \in EditIds, status \in StatusDraws(WorkflowStore) :
          LET r == export_workflow(WorkflowStore, id, status) IN
          /\ AfterCall(r.st)
          /\ last' = Called("export_workflow", <<id>>, EmptyDict, r.returns)
          /\ held' = held \cup r.exported
    /\ UNCHANGED <<drawn, gone>>

\* the export data is the result of an earlier export_workflow (a dict the
\* caller holds), or built by the caller with a workflow dict of its own, or
\* has no workflow dict
ImportWorkflow ==
    /\ nops < MaxOps
    /\ \/ \E ref \in held \cup {0} :
             LET r == import_workflow(WorkflowStore, ref) IN
             /\ AfterCall(r.st)
             /\ last' = Called("import_workflow", <<ref>>, EmptyDict, r.returns)
             /\ gone' = gone \ r.stored
       \/ \E data \in ImportBodies :
             LET ref == Len(heap) + 1
                 r == import_workflow([WorkflowStore EXCEPT !.heap = Append(@, data)],
                                      ref) IN
             /\ AfterCall(r.st)
             /\ last' = Called("import_workflow", <<ref>>, data, r.returns)
             /\ gone' = gone \ r.stored
    /\ UNCHANGED <<drawn, held>>

WorkflowNext ==
    \/ GetAllWorkflows
    \/ GetWorkflowById
    \/ CreateWorkflow
    \/ UpdateWorkflow
    \/ DeleteWorkflow
    \/ SearchWorkflows
    \/ CloneWorkflow
    \/ ExportWorkflow
    \/ ImportWorkflow

WorkflowSpec == Init /\ [][WorkflowNext]_vars

\* C31: every workflow in the store, those added by create_workflow,
\* clone_workflow and import_workflow included, is keyed by an integer id that
\* the store's next-id counter has given out.
C31_IntegerIds ==
    \A k \in DOMAIN workflows : k[1] = "int" /\ k[2] < next_id

\* C37: once delete_workflow(id) has returned True, and until a create, clone
\* or import stores that id again, get_workflow_by_id(id) returns None and
\* get_all_workflows() holds no workflow of that id, also when the deletion
\* emptied the store.
C37_DeleteIsDurable ==
    /\ (last.op = "get_workflow_by_id" /\ AsKey(last.args[1]) \in gone)
          => last.result.ret = "None"
    /\ last.op = "get_all_workflows"
          => \A k \in DOMAIN last.result.value : last.result.value[k]["id"] \notin gone

\* C38: under any sequence of create, update, delete, clone, export and import
\* calls, the import of an export's result included, the id field of every
\* stored workflow equals the key under which it is stored.
C38_KeyIsId ==
    \A k \in DOMAIN workflows : heap[workflows[k]]["id"] = k

\* the store at the moment clone_workflow or import_workflow assigns the id:
\* clone_workflow has looked the original up first (line 212), which seeds an
\* empty store
AtAssignment(op) ==
    IF op = "clone_workflow"
    THEN EnsureSampleData(WorkflowStore, CHOOSE s \in StatusDraws(WorkflowStore) : TRUE)
    ELSE WorkflowStore

\* C39: the next-id counter never decreases, and the id that clone_workflow or
\* import_workflow assigns from it is not a key of the store at that moment:
\* the call adds a key and leaves every other key with the workflow it had,
\* also after all workflows were deleted and the sample data seeded again.
C39_FreshIds ==
    [][/\ next_id' >= next_id
       /\ (/\ last'.op \in {"clone_workflow", "import_workflow"}
           /\ last'.result.ret = "dict")
          => LET before == AtAssignment(last'.op)
                 newId == last'.result.value["id"]
             IN  /\ newId = PyInt(before.next_id)
                 /\ newId \notin DOMAIN before.workflows
                 /\ DOMAIN workflows' = (DOMAIN before.workflows) \cup {newId}
                 /\ \A k \in DOMAIN before.workflows :
                       workflows'[k] = before.workflows[k]]_vars

\* every sample workflow was deleted, the store was seeded again, and a clone
\* got the next id
C39_Witness ==
    /\ last.op = "clone_workflow"
    /\ last.result.ret = "dict"
    /\ gone = {PyInt(i) : i \in 1..SampleWorkflows}
    /\ gone \subseteq DOMAIN workflows
    /\ last.result.value["id"] = PyInt(SampleWorkflows + 1)

(***************************************************************************)
(* The model store and the agent store, one request at a time.             *)
(***************************************************************************)
\* the ids of the routes: strs of digits, and a str that is not all digits
ModelIdArgs == {PyStr(i) : i \in 1..SampleModels} \cup {Uuid(1)}

AgentIdArgs == {PyStr(1), Uuid(1)}

ModelPostBodies ==
    { [name |-> <<"m">>, provider |-> "p", modelId |-> "x"],
      [name |-> <<"m">>] }

ModelPutBodies == { [name |-> <<"renamed">>, id |-> PyInt(9)] }

AgentPostBodies ==
    { [name |-> <<"a">>, capabilities |-> <<"c">>, modelId |-> PyInt(1)],
      [name |-> <<"a">>, capabilities |-> <<"c">>, modelId |-> PyStr(1)],
      [name |-> <<"a">>, capabilities |-> <<"c">>],
      [name |-> <<"a">>] }

AgentPutBodies == { [modelId |-> PyInt(SampleModels)] }

\* the request has been answered and left the module state st
AfterRequest(st) ==
    /\ models' = st.models
    /\ next_model_id' = st.next_model_id
    /\ mock_models' = st.mock_models
    /\ agents' = st.agents
    /\ next_agent_id' = st.next_agent_id
    /\ mock_agents' = st.mock_agents
    /\ heap' = st.heap
    /\ nops' = nops + 1
    /\ UNCHANGED <<registryVars, workflowVars>>

GetModels ==
    /\ nops < MaxOps
    /\ LET r == ModelListGet(ModelStore) IN
          /\ AfterRequest(r.st)
          /\ last' = Served("getModels", <<>>, EmptyDict, r.resp)

CreateModel ==
    /\ nops < MaxOps
    /\ \E data \in ModelPostBodies :
          LET r == ModelListPost(ModelStore, data) IN
          /\ AfterRequest(r.st)
          /\ last' = Served("createModel", <<>>, data, r.resp)

GetModel ==
    /\ nops < MaxOps
    /\ \E id \in ModelIdArgs :
          LET r == ModelGet(ModelStore, id) IN
          /\ AfterRequest(r.st)
          /\ last' = Served("getModel", <<id>>, EmptyDict, r.resp)

UpdateModel ==
    /\ nops < MaxOps
    /\ \E id \in ModelIdArgs, data \in ModelPutBodies :
          LET r == ModelPut(ModelStore, id, data) IN
          /\ AfterRequest(r.st)
          /\ last' = Served("updateModel", <<id>>, data, r.resp)

DeleteModel ==
    /\ nops < MaxOps
    /\ \E id \in ModelIdArgs :
          LET r == ModelDelete(ModelStore, id) IN
          /\ AfterRequest(r.st)
          /\ last' = Served("deleteModel", <<id>>, EmptyDict, r.resp)

GetAgents ==
    /\ nops < MaxOps
    /\ \E uses \in UseDraws(ModelStore) :
          LET r == AgentListGet(ModelStore, uses) IN
          /\ AfterRequest(r.st)
          /\ last' = Served("getAgents", <<>>, EmptyDict, r.resp)

CreateAgent ==
    /\ nops < MaxOps
    /\ \E data \in AgentPostBodies :
          LET r == AgentListPost(ModelStore, data) IN
          /\ AfterRequest(r.st)
          /\ last' = Served("createAgent", <<>>, data, r.resp)

GetAgent ==
    /\ nops < MaxOps
    /\ \E id \in AgentIdArgs, uses \in UseDraws(ModelStore) :
          LET r == AgentGet(ModelStore, id, uses) IN
          /\ AfterRequest(r.st)
          /\ last' = Served("getAgent", <<id>>, EmptyDict, r.resp)

UpdateAgent ==
    /\ nops < MaxOps
    /\ \E id \in AgentIdArgs, data \in AgentPutBodies :
          LET r == AgentPut(ModelStore, id, data) IN
          /\ AfterRequest(r.st)
          /\ last' = Served("updateAgent", <<id>>, data, r.resp)

DeleteAgent ==
    /\ nops < MaxOps
    /\ \E id \in AgentIdArgs :
          LET r == AgentDelete(ModelStore, id) IN
          /\ AfterRequest(r.st)
          /\ last' = Served("deleteAgent", <<id>>, EmptyDict, r.resp)

ModelNext ==
    \/ GetModels
    \/ CreateModel
    \/ GetModel
    \/ UpdateModel
    \/ DeleteModel
    \/ GetAgents
    \/ CreateAgent
    \/ GetAgent
    \/ UpdateAgent
    \/ DeleteAgent

ModelSpec == Init /\ [][ModelNext]_vars

\* some stored agent has the model of key as its modelId
InUse(key) ==
    \E a \in DOMAIN agents : DictGet(heap[agents[a]], "modelId", PyNone) = key

\* C40: deleting a model that exists and is the modelId of some stored agent is
\* answered 400 and leaves the model store and the agent store unchanged;
\* deleting a model that exists and that no agent refers to removes exactly that
\* model, so that right afterwards no stored agent has its id as modelId.
C40_DeleteRespectsAgents ==
    [][(last'.op = "deleteModel" /\ AsKey(last'.args[1]) \in DOMAIN models)
       => LET key == AsKey(last'.args[1]) IN
          /\ InUse(key) =>
                /\ last'.code = 400
                /\ models' = models
                /\ agents' = agents
                /\ heap' = heap
          /\ ~InUse(key) =>
                /\ last'.code = 200
                /\ models' = DictDel(models, key)
                /\ agents' = agents
                /\ heap' = heap
                /\ \A a \in DOMAIN agents' :
                      DictGet(heap'[agents'[a]], "modelId", PyNone) # key]_vars

\* the deletion of a model that an agent refers to was refused, while another
\* model is stored that no agent refers to
C40_Witness ==
    /\ last.op = "deleteModel"
    /\ last.code = 400
    /\ InUse(AsKey(last.args[1]))
    /\ \E k \in DOMAIN models : ~InUse(k)

====
